---- MODULE Spec2Model ----
(***************************************************************************)
(* A model of lpt (azure-vm-utils): the command handlers of lpt/main.py,   *)
(* the SSH transport of lpt/ssh.py, and the two cores they drive, the      *)
(* dependency graph builder (ServiceGraph) and the event timeline          *)
(* assembler (analyze_events).  The handlers and the transport are         *)
(* translated from the source; the two cores, whose modules are imported   *)
(* by main.py, are modelled from sections 4.4 and 4.5 of the               *)
(* specification.                                                          *)
(***************************************************************************)
EXTENDS Integers, Sequences, FiniteSets, TLC

VARIABLES
    pc,          \* position of the running command handler
    argv,        \* the option values typed on the command line
    args,        \* the parsed command line (argparse namespace)
    units,       \* systemd snapshot: unit name -> UnitNode
    cloudinits,  \* the cloud-init logs found, oldest first
    sg,          \* the ServiceGraph object built by main_graph
    queue,       \* graph builder: discovered nodes waiting for expansion
    visited,     \* graph builder: nodes already expanded
    nodes,       \* graph builder: node set
    edges,       \* graph builder: edge set
    expansions,  \* history: how many times each node was expanded
    digraph,     \* what main_graph prints
    journals,    \* the journals loaded, one per boot, oldest first
    sysevents,   \* the events of the loaded systemd state
    exc,         \* the exception that left the handler, if any
    report,      \* the events of the report main_analyze prints
    ssh,         \* what SshManager.connect returned to the handler
    client,      \* SSH.client
    proxy_client,\* SSH.proxy_client
    transport,   \* SSH.transport
    proxy_sock,  \* SSH.proxy_sock
    now,         \* time.time(), in seconds since the handler started
    timeout,     \* connect_with_retries: the deadline
    retval,      \* what connect_with_retries returned
    attempts,    \* history: the number of SSH.connect calls made
    ran,         \* the number of SSH.run calls made
    func,        \* args.func: the handler of the subcommand typed
    call,        \* the arguments analyze_events was called with
    durations,   \* the summary durations of the report
    images,      \* launch-azure-instance: the images not yet launched
    flags,       \* SSH.run: capture_output, check and text
    cmd_out,     \* the bytes the remote command writes to stdout
    cmd_err,     \* the bytes the remote command writes to stderr
    exit_status, \* the status the remote command exits with
    in_buffer,   \* channel: stdout bytes arrived and not yet read
    in_stderr_buffer, \* channel: stderr bytes arrived and not yet read
    exit_ready,  \* channel: the exit status has arrived
    eof_received,\* channel: EOF has arrived
    stdout_io,   \* SSH.run: the stdout bytes read so far
    stderr_io,   \* SSH.run: the stderr bytes read so far
    returncode,  \* SSH.run: the exit status read
    outcome,      \* SSH.run: what it returned or raised
    closed,      \* channel: closed by SSH.run
    fetcher,     \* which of fetch, fetch_binary and fetch_text is called
    cmd,         \* fetch*: the command list
    runs,        \* fetch*: history of the SSH.run calls made and their outcomes
    proc,        \* fetch*: the process the last SSH.run call gave back
    local_file,  \* fetch: what was written to local_path, if anything
    fetched,     \* fetch*: what was returned or raised
    wait_attempts, \* wait_for_system_ready: attempts
    polls,       \* wait_for_system_ready: the is-system-running polls issued
    status,      \* wait_for_system_ready: the local status, once bound
    seen,        \* wait_for_system_ready: history of the statuses polled
    prelim_failures, \* wait_for_system_ready: the --wait commands that failed
    waited,      \* wait_for_system_ready: what was returned or raised
    session,     \* selftest: request.session, its aborted and failed flags
    test,        \* selftest: the TestVMs object of the running test
    issued,      \* selftest: history of the commands and steps issued
    locals,      \* selftest: the locals of the function being run
    validator    \* selftest.py: the AzureVmUtilsValidator object and its run

gvars == <<units, sg, queue, visited, nodes, edges, expansions, digraph>>

avars == <<journals, sysevents, exc, report>>

svars == <<ssh, client, proxy_client, transport, proxy_sock, now, timeout,
           retval, attempts, ran>>

kvars == <<func, call, durations, images>>

rvars == <<flags, cmd_out, cmd_err, exit_status, in_buffer, in_stderr_buffer,
           exit_ready, eof_received, stdout_io, stderr_io, returncode, outcome,
           closed>>

fvars == <<fetcher, cmd, runs, proc, local_file, fetched>>

wvars == <<wait_attempts, polls, status, seen, prelim_failures, waited>>

tvars == <<session, test, issued, locals, validator>>

xvars == <<rvars, fvars, wvars, tvars>>

vars == <<pc, argv, args, cloudinits, gvars, avars, svars, kvars, xvars>>

None == "None"

(***************************************************************************)
(* Names.  Unit names are ordered lexicographically, as strings are.       *)
(***************************************************************************)
Units == {"u1", "u2", "u3"}
Missing == "u0"
AllNames == Units \cup {Missing}

Rank(n) == CASE n = "u0" -> 0 [] n = "u1" -> 1 [] n = "u2" -> 2 [] n = "u3" -> 3

RelKinds == {"requires", "wants", "after"}

ConditionResults == {"ran", "skipped-condition-false", "skipped-other", "unknown"}

\* Largest number of declared relations in a snapshot.
MaxRel == 3

RECURSIVE SubsetsUpTo(_, _)
SubsetsUpTo(S, k) ==
    IF k = 0 THEN {{}}
    ELSE LET P == SubsetsUpTo(S, k - 1)
         IN  P \cup {p \cup {t} : p \in P, t \in S}

\* systemd drops a dependency of a unit on itself, so no snapshot holds one.
Relations == {r \in Units \X Units \X RelKinds : r[1] # r[2]}

Targets(rel, n, kind) == {r[2] : r \in {q \in rel : q[1] = n /\ q[3] = kind}}

UnitNode(rel, cond, n) ==
    [requires |-> Targets(rel, n, "requires"),
     wants |-> Targets(rel, n, "wants"),
     after |-> Targets(rel, n, "after"),
     condition_result |-> cond[n]]

AllRan == [n \in Units |-> "ran"]

CondChoices ==
    {AllRan}
    \cup {[AllRan EXCEPT ![n] = "skipped-condition-false"] : n \in Units}
    \cup {[AllRan EXCEPT !["u2"] = "skipped-other"]}

Snapshots ==
    {[n \in Units |-> UnitNode(rel, cond, n)] :
        rel \in SubsetsUpTo(Relations, MaxRel), cond \in CondChoices}

(***************************************************************************)
(* Sorting.                                                                *)
(***************************************************************************)
RECURSIVE Insert(_, _)
Insert(n, s) ==
    IF s = <<>> THEN <<n>>
    ELSE IF Rank(n) < Rank(Head(s)) THEN <<n>> \o s
    ELSE <<Head(s)>> \o Insert(n, Tail(s))

\* Python's sorted() on a list of names.
RECURSIVE Sorted(_)
Sorted(s) == IF s = <<>> THEN <<>> ELSE Insert(Head(s), Sorted(Tail(s)))

RECURSIVE SortedNames(_)
SortedNames(S) ==
    IF S = {} THEN <<>>
    ELSE LET m == CHOOSE x \in S : \A y \in S : Rank(x) <= Rank(y)
         IN  <<m>> \o SortedNames(S \ {m})

KindRank(k) == IF k = "ordering" THEN 0 ELSE 1

EdgeKey(e) == Rank(e.from) * 100 + Rank(e.to) * 10 + KindRank(e.kind)

RECURSIVE SortedEdges(_)
SortedEdges(E) ==
    IF E = {} THEN <<>>
    ELSE LET m == CHOOSE x \in E : \A y \in E : EdgeKey(x) <= EdgeKey(y)
         IN  <<m>> \o SortedEdges(E \ {m})

Range(s) == {s[i] : i \in DOMAIN s}

(***************************************************************************)
(* The graph command: main_graph and the dependency graph builder.         *)
(***************************************************************************)
FilterChoices == {<<>>, <<"u1">>, <<"u2">>, <<"u3", "u2">>, <<"u2", "u3">>}

\* A cloud-init log, as far as main_graph reads it: the frames of its stages.
CloudinitChoices ==
    {<<>>, <<[frames |-> <<"init-local", "init">>, events |-> <<>>]>>}

\* An --event-type option whose default list is not empty.
EventTypeDefault_NotEmpty == <<"service-failed">>

\* main, lines 204-209: --event-type extends a list that starts empty.
EventTypeDefault == <<>>

\* main, lines 214-219: --filter-service extends a list that starts empty.
FilterServiceDefault == <<>>

\* parser.parse_args: store_true flags, and "extend" options appended to
\* their defaults.
ParseArgs(typed) ==
    [service |-> typed.service,
     filter_service |-> FilterServiceDefault \o typed.filter_service,
     filter_conditional_result_no |-> typed.filter_conditional_result_no,
     boot |-> typed.boot,
     event_type |-> EventTypeDefault \o typed.event_type,
     ssh_host |-> typed.ssh_host,
     ssh_proxy_host |-> typed.ssh_proxy_host]

GraphArgv ==
    [service : {"u1", Missing},
     filter_service : FilterChoices,
     filter_conditional_result_no : BOOLEAN,
     boot : {FALSE},
     event_type : {<<>>},
     ssh_host : {None},
     ssh_proxy_host : {None}]

\* SSH, lines 26-33: the fields of an SSH object start as None.
SshIdle ==
    /\ ssh = None
    /\ client = None
    /\ proxy_client = None
    /\ transport = None
    /\ proxy_sock = None
    /\ now = 0
    /\ timeout = 0
    /\ retval = None
    /\ attempts = 0
    /\ ran = 0

\* No call of analyze_events made yet.
NoCall == [made |-> FALSE, boot |-> FALSE, event_types |-> <<>>]

\* A null duration: the metric is absent.
Null == {}

NoDurations == [boot_to_final |-> Null]

\* args.func is set by the subparser of the subcommand typed.
Dispatched(f) ==
    /\ func = f
    /\ call = NoCall
    /\ durations = NoDurations
    /\ images = 0

NoFlags == [capture_output |-> FALSE, check |-> FALSE, text |-> FALSE]

\* A value of SSH.run's outputs: None, bytes or str.
NoneValue == [type |-> "None", data |-> <<>>]

NoResult == [kind |-> "None", returncode |-> -1, stdout |-> NoneValue,
             stderr |-> NoneValue]

\* A channel on which nothing has arrived and nothing was read.
ChannelFresh ==
    /\ in_buffer = <<>>
    /\ in_stderr_buffer = <<>>
    /\ exit_ready = FALSE
    /\ eof_received = FALSE
    /\ stdout_io = <<>>
    /\ stderr_io = <<>>
    /\ returncode = -1
    /\ outcome = NoResult
    /\ closed = FALSE

\* No command is being run through the SSH object.
RunIdle ==
    /\ flags = NoFlags
    /\ cmd_out = <<>>
    /\ cmd_err = <<>>
    /\ exit_status = 0
    /\ ChannelFresh

\* Nothing written to local_path.
Unwritten == NoneValue

NotFetched == [kind |-> "None", value |-> NoneValue]

\* fetch* is not being called.
FetchFresh ==
    /\ cmd = <<>>
    /\ runs = <<>>
    /\ proc = NoResult
    /\ local_file = Unwritten
    /\ fetched = NotFetched

\* A local variable that no assignment has bound yet.
Unbound == [bound |-> FALSE, value |-> <<>>]

NotWaited == [kind |-> "None", status |-> <<>>]

WaitFresh ==
    /\ polls = 0
    /\ status = Unbound
    /\ seen = <<>>
    /\ prelim_failures = 0
    /\ waited = NotWaited

\* conftest.py, pytest_sessionstart: both flags start False.
SessionStart == [aborted |-> FALSE, failed |-> FALSE, exitstatus |-> -1]

\* No test is set up.
NoTest == [reallocates |-> 0, reboots |-> 0, hold_failures |-> FALSE,
           env_rg |-> FALSE, alloc |-> 0, boot |-> 0, number |-> 0]

\* The locals of the selftest functions modelled, before any is bound.
NoLocals == [retries_remaining |-> 0, deadline |-> 0, status |-> <<>>,
             last_error |-> "", caller |-> None, alloc_range |-> 0,
             boot_range |-> 0]

NoValidator == [made |-> FALSE]

\* The self-test harness and the validator are not running.
SelftestIdle ==
    /\ session = SessionStart
    /\ test = NoTest
    /\ issued = <<>>
    /\ locals = NoLocals
    /\ validator = NoValidator

CommandIdle ==
    /\ RunIdle
    /\ fetcher = None
    /\ FetchFresh
    /\ wait_attempts = 0
    /\ WaitFresh
    /\ SelftestIdle

NoGraph == [service |-> None, filter_services |-> <<>>,
            filter_conditional_result_no |-> FALSE, frames |-> <<>>]

NoDigraph == [nodes |-> <<>>, edges |-> <<>>, frames |-> <<>>]

InitGraph ==
    /\ pc = "main_graph"
    /\ argv \in GraphArgv
    /\ args = ParseArgs(argv)
    /\ units \in Snapshots
    /\ cloudinits \in CloudinitChoices
    /\ sg = NoGraph
    /\ queue = <<>>
    /\ visited = {}
    /\ nodes = {}
    /\ edges = {}
    /\ expansions = [n \in AllNames |-> 0]
    /\ digraph = NoDigraph
    /\ journals = <<>>
    /\ sysevents = <<>>
    /\ exc = None
    /\ report = <<>>
    /\ SshIdle
    /\ CommandIdle
    /\ Dispatched("main_graph")

\* main_graph, lines 113-118: the frames of the last cloud-init log, if any.
GraphFrames ==
    IF cloudinits # <<>> THEN cloudinits[Len(cloudinits)].frames ELSE <<>>

\* main_graph forgetting to hand over the exclusion list.
ServiceGraphArgs_NoFilter ==
    [service |-> args.service,
     filter_services |-> <<>>,
     filter_conditional_result_no |-> args.filter_conditional_result_no,
     frames |-> GraphFrames]

\* main_graph forgetting to hand over the conditional-result flag.
ServiceGraphArgs_NoFlag ==
    [service |-> args.service,
     filter_services |-> Sorted(args.filter_service),
     filter_conditional_result_no |-> FALSE,
     frames |-> GraphFrames]

\* main_graph handing over the exclusion list in the order it was typed.
ServiceGraphArgs_Unsorted ==
    [service |-> args.service,
     filter_services |-> args.filter_service,
     filter_conditional_result_no |-> args.filter_conditional_result_no,
     frames |-> GraphFrames]

\* main_graph, lines 122-128: the arguments handed to ServiceGraph.
ServiceGraphArgs ==
    [service |-> args.service,
     filter_services |-> Sorted(args.filter_service),
     filter_conditional_result_no |-> args.filter_conditional_result_no,
     frames |-> GraphFrames]

\* A builder that seeds only a root the snapshot knows.
SeedNodes_KnownOnly(root) == {root} \cap DOMAIN units

\* Step 1 of the builder: the node set is seeded with the root service,
\* whether or not the snapshot knows it.
SeedNodes(root) == {root}

MainGraph ==
    /\ pc = "main_graph"
    /\ sg' = ServiceGraphArgs
    /\ queue' = SortedNames(SeedNodes(sg'.service))
    /\ nodes' = SeedNodes(sg'.service)
    /\ pc' = "expand"
    /\ UNCHANGED <<argv, args, units, cloudinits, visited, edges, expansions, digraph>>
    /\ UNCHANGED <<avars, svars>>
    /\ UNCHANGED <<kvars, xvars>>

\* A builder without the visited-set guard.
NotYetVisited_Unguarded(n) == TRUE

\* The visited-set guard of the breadth-first expansion.
NotYetVisited(n) == n \notin visited

\* Expansion stops at a node named in exclude_services.
Excluded(n) == n \in Range(sg.filter_services)

\* A builder that follows requires and wants but not after.
OutEdges_NoAfter(n) ==
    IF Excluded(n) \/ n \notin DOMAIN units THEN {}
    ELSE {[from |-> n, to |-> t, kind |-> "requirement"] :
              t \in units[n].requires \cup units[n].wants}

\* The edges the expansion of n adds: none for an excluded node, none for a
\* name the snapshot does not know.
OutEdges(n) ==
    IF Excluded(n) \/ n \notin DOMAIN units THEN {}
    ELSE {[from |-> n, to |-> t, kind |-> "requirement"] :
              t \in units[n].requires \cup units[n].wants}
         \cup {[from |-> n, to |-> t, kind |-> "ordering"] : t \in units[n].after}

\* Step 2 of the builder, one node: follow its requires, wants and after.
Expand ==
    /\ pc = "expand"
    /\ queue # <<>>
    /\ LET n == Head(queue)
           out == OutEdges(n)
       IN  /\ NotYetVisited(n)
           /\ visited' = visited \cup {n}
           /\ expansions' = [expansions EXCEPT ![n] = @ + 1]
           /\ edges' = edges \cup out
           /\ nodes' = nodes \cup {e.to : e \in out}
           /\ queue' = Tail(queue) \o SortedNames({e.to : e \in out})
    /\ UNCHANGED <<pc, argv, args, units, cloudinits, sg, digraph>>
    /\ UNCHANGED <<avars, svars>>
    /\ UNCHANGED <<kvars, xvars>>

\* Step 2, a node that was expanded before: it is not expanded again.
SkipVisited ==
    /\ pc = "expand"
    /\ queue # <<>>
    /\ ~NotYetVisited(Head(queue))
    /\ queue' = Tail(queue)
    /\ UNCHANGED <<pc, argv, args, units, cloudinits, sg, visited, nodes, edges,
                   expansions, digraph>>
    /\ UNCHANGED <<avars, svars>>
    /\ UNCHANGED <<kvars, xvars>>

ConditionallySkipped(n) ==
    n \in DOMAIN units /\ units[n].condition_result = "skipped-condition-false"

\* Step 3 of the builder: the nodes and edges that are rendered.
RenderedNodes(ns, flag) ==
    IF flag THEN {n \in ns : ~ConditionallySkipped(n)} ELSE ns

RenderedEdges(es, flag) ==
    IF flag
    THEN {e \in es : ~ConditionallySkipped(e.from) /\ ~ConditionallySkipped(e.to)}
    ELSE es

\* A renderer that declares the frames as nodes of the graph.
GenerateDigraph_FramesAsNodes(ns, es, flag, frames) ==
    LET rn == SortedNames(RenderedNodes(ns, flag))
    IN  [nodes |-> [i \in DOMAIN rn |->
                      [name |-> rn[i], skipped |-> ConditionallySkipped(rn[i])]]
                   \o [i \in DOMAIN frames |-> [name |-> frames[i], skipped |-> FALSE]],
         edges |-> SortedEdges(RenderedEdges(es, flag)),
         frames |-> frames]

\* generate_digraph: nodes and edges in lexicographic order, skipped nodes marked.
GenerateDigraph(ns, es, flag, frames) ==
    LET rn == SortedNames(RenderedNodes(ns, flag))
    IN  [nodes |-> [i \in DOMAIN rn |->
                      [name |-> rn[i], skipped |-> ConditionallySkipped(rn[i])]],
         edges |-> SortedEdges(RenderedEdges(es, flag)),
         frames |-> frames]

Render ==
    /\ pc = "expand"
    /\ queue = <<>>
    /\ digraph' = GenerateDigraph(nodes, edges, sg.filter_conditional_result_no,
                                  sg.frames)
    /\ pc' = "done"
    /\ UNCHANGED <<argv, args, units, cloudinits, sg, queue, visited, nodes, edges,
                   expansions>>
    /\ UNCHANGED <<avars, svars>>
    /\ UNCHANGED <<kvars, xvars>>

NextGraph == MainGraph \/ Expand \/ SkipVisited \/ Render

GraphSpec == InitGraph /\ [][NextGraph]_vars

\* main_graph is a sequential program: it keeps taking its next step.  The
\* expansion reads neither the frames nor the conditional-result flag, and
\* reads the exclusion list only after it was sorted, so termination is
\* checked with no cloud-init log, the flag unset and the list given in
\* order.
InitGraphFair ==
    /\ InitGraph
    /\ cloudinits = <<>>
    /\ ~args.filter_conditional_result_no
    /\ args.filter_service = Sorted(args.filter_service)

GraphFair == InitGraphFair /\ [][NextGraph]_vars /\ WF_vars(NextGraph)

(***************************************************************************)
(* Properties of the graph command.                                        *)
(***************************************************************************)
\* What the snapshot declares for n: its requires, wants and after targets.
Declared(n) ==
    IF n \in DOMAIN units
    THEN units[n].requires \cup units[n].wants \cup units[n].after
    ELSE {}

\* The names reached from S by following declared relations, never out of a
\* name in barrier.
RECURSIVE ReachFrom(_, _)
ReachFrom(S, barrier) ==
    LET next == S \cup UNION {Declared(n) : n \in S \ barrier}
    IN  IF next = S THEN S ELSE ReachFrom(next, barrier)

UserExcluded == Range(args.filter_service)

Built == pc = "done"

ThreeCycle ==
    /\ args.service = "u1"
    /\ units["u1"].requires = {"u2"}
    /\ units["u2"].requires = {"u3"}
    /\ units["u3"].requires = {"u1"}
    /\ \A n \in Units : units[n].wants = {} /\ units[n].after = {}

ThreeCycleEdges ==
    {[from |-> "u1", to |-> "u2", kind |-> "requirement"],
     [from |-> "u2", to |-> "u3", kind |-> "requirement"],
     [from |-> "u3", to |-> "u1", kind |-> "requirement"]}

\* C1: for every snapshot, cyclic ones included, the build terminates, no
\* node is ever expanded twice, and when the build has ended every node of
\* the graph was expanded exactly once.
C1_TerminatesVisitingOnce ==
    /\ [](\A n \in AllNames : expansions[n] <= 1)
    /\ [](Built => \A n \in AllNames : expansions[n] = IF n \in nodes THEN 1 ELSE 0)
    /\ <>Built

\* A build that ended on a cycle of three units through the root.
C1_Witness ==
    /\ Built
    /\ Cardinality(nodes) = 3
    /\ \E n \in nodes \ {args.service} : args.service \in Declared(n)
    /\ \A n \in nodes : expansions[n] = 1

\* C2 as stated: the node set is the root plus every unit reachable from it,
\* whatever the exclusion list; the three-cycle gives 3 nodes and 3
\* requirement edges.
C2_Original ==
    Built =>
        /\ nodes = ReachFrom({args.service}, {})
        /\ ThreeCycle => Cardinality(nodes) = 3 /\ edges = ThreeCycleEdges

\* C2 as amended: the node set is the root plus every unit reachable from it
\* without passing through a unit named in the exclusion list; with no
\* exclusion the three-cycle gives 3 nodes and 3 requirement edges.
C2_ReachableNodes ==
    Built =>
        /\ nodes = ReachFrom({args.service}, UserExcluded)
        /\ UserExcluded = {} => nodes = ReachFrom({args.service}, {})
        /\ ThreeCycle /\ UserExcluded = {} =>
               Cardinality(nodes) = 3 /\ edges = ThreeCycleEdges

\* The three-cycle, built from root u1 with no exclusion.
C2_Witness == Built /\ ThreeCycle /\ UserExcluded = {} /\ Cardinality(edges) = 3

\* C3: an excluded unit that is reached is a node, no edge ever leaves an
\* excluded unit, and a unit reachable only through excluded units is never
\* a node.
C3_ExcludedNotExpanded ==
    /\ \A e \in edges : e.from \notin UserExcluded
    /\ \A i \in DOMAIN digraph.edges : digraph.edges[i].from \notin UserExcluded
    /\ nodes \subseteq ReachFrom({args.service}, UserExcluded)
    /\ Built => UserExcluded \cap ReachFrom({args.service}, UserExcluded) \subseteq nodes

\* An excluded unit that is a node, with a dependency that is not.
C3_Witness ==
    /\ Built
    /\ \E x \in UserExcluded \cap nodes :
           /\ x # args.service
           /\ \E t \in Declared(x) : t \notin nodes

DigraphNames == {digraph.nodes[i].name : i \in DOMAIN digraph.nodes}

Touches(e, S) == e.from \in S \/ e.to \in S

SkippedNodes == {n \in nodes : ConditionallySkipped(n)}

\* C4: with the flag set the printed graph holds no conditionally skipped
\* node and no edge touching one, and is otherwise the graph printed with
\* the flag unset; with the flag unset the skipped nodes are printed, marked.
C4_ConditionalSkips ==
    Built =>
        LET unset == GenerateDigraph(nodes, edges, FALSE, sg.frames)
            keptNodes == SelectSeq(unset.nodes, LAMBDA r : ~ConditionallySkipped(r.name))
            keptEdges == SelectSeq(unset.edges, LAMBDA e : ~Touches(e, SkippedNodes))
        IN  IF args.filter_conditional_result_no
            THEN /\ DigraphNames \cap SkippedNodes = {}
                 /\ \A i \in DOMAIN digraph.edges :
                        ~Touches(digraph.edges[i], SkippedNodes)
                 /\ digraph.nodes = keptNodes
                 /\ digraph.edges = keptEdges
            ELSE /\ digraph = unset
                 /\ DigraphNames = nodes
                 /\ Range(digraph.edges) = edges
                 /\ \A i \in DOMAIN digraph.nodes :
                        digraph.nodes[i].skipped
                            <=> ConditionallySkipped(digraph.nodes[i].name)

\* The flag set, a skipped unit reached through "after" and dropped, and
\* another edge of the root printed.
C4_Witness ==
    /\ Built
    /\ args.filter_conditional_result_no
    /\ \E d \in SkippedNodes :
           /\ [from |-> args.service, to |-> d, kind |-> "ordering"] \in edges
           /\ d \notin DigraphNames
    /\ \E i \in DOMAIN digraph.edges : digraph.edges[i].from = args.service

\* C5: a root service the snapshot does not know is no error: the build
\* ends with exactly that one node and no edge, and so does the printed graph.
C5_UnknownRoot ==
    args.service \notin DOMAIN units =>
        /\ pc \in {"main_graph", "expand", "done"}
        /\ edges = {}
        /\ pc # "main_graph" => nodes = {args.service}
        /\ Built => /\ DigraphNames = {args.service}
                    /\ Len(digraph.nodes) = 1
                    /\ digraph.edges = <<>>

\* The graph printed for a root that is not in the snapshot.
C5_Witness == Built /\ args.service = Missing /\ Len(digraph.nodes) = 1

(***************************************************************************)
(* The analyze command: main_analyze and the event timeline assembler.     *)
(***************************************************************************)
EventKinds ==
    {"boot-milestone", "service-start", "service-failed", "service-stop",
     "cloud-init-stage-start", "cloud-init-stage-end"}

JournalKinds == {"boot-milestone", "service-start"}

\* Instants are normalized to one clock and preserve causal order: what an
\* older boot logged carries earlier instants than what the current boot logged.
BootInstants(boot) == IF boot = 0 THEN {3, 4} ELSE {1, 2}

\* The classified records of one log of one boot; a record without a usable
\* timestamp has no known instant.
Records(boot, kinds) ==
    {[known |-> TRUE, instant |-> t, kind |-> k] : t \in BootInstants(boot), k \in kinds}
    \cup {[known |-> FALSE, instant |-> 0, kind |-> k] : k \in kinds}

\* Largest number of classified records in the journal of the current boot.
MaxJournal == 2

RECURSIVE SeqsUpTo(_, _)
SeqsUpTo(S, n) ==
    IF n = 0 THEN {<<>>}
    ELSE LET P == SeqsUpTo(S, n - 1)
         IN  P \cup {Append(q, e) : q \in {r \in P : Len(r) = n - 1}, e \in S}

AtMostOne(S) == {<<>>} \cup {<<e>> : e \in S}

JournalLists ==
    LET current == SeqsUpTo(Records(0, JournalKinds), MaxJournal)
        older == AtMostOne(Records(1, JournalKinds))
    IN  {<<>>} \cup {<<j0>> : j0 \in current}
        \cup {<<j1, j0>> : j1 \in older, j0 \in current}

CloudinitLog(events) == [frames |-> <<>>, events |-> events]

CloudinitLists ==
    LET current == AtMostOne(Records(0, {"cloud-init-stage-end"}))
        older == AtMostOne(Records(1, {"cloud-init-stage-end"}))
    IN  {<<>>} \cup {<<CloudinitLog(c0)>> : c0 \in current}
        \cup {<<CloudinitLog(c1), CloudinitLog(c0)>> : c1 \in older, c0 \in current}

SystemdChoices == AtMostOne(Records(0, {"service-start"}))

EventTypeChoices ==
    {<<>>, <<"boot-milestone">>, <<"service-start", "cloud-init-stage-end">>}

AnalyzeArgv ==
    [service : {None},
     filter_service : {<<>>},
     filter_conditional_result_no : {FALSE},
     boot : BOOLEAN,
     event_type : EventTypeChoices,
     ssh_host : {None},
     ssh_proxy_host : {None}]

GraphIdle ==
    /\ units = <<>>
    /\ sg = NoGraph
    /\ queue = <<>>
    /\ visited = {}
    /\ nodes = {}
    /\ edges = {}
    /\ expansions = [n \in AllNames |-> 0]
    /\ digraph = NoDigraph

InitAnalyze ==
    /\ pc = "main_analyze"
    /\ argv \in AnalyzeArgv
    /\ args = ParseArgs(argv)
    /\ cloudinits = <<>>
    /\ journals = <<>>
    /\ sysevents = <<>>
    /\ exc = None
    /\ report = <<>>
    /\ GraphIdle
    /\ SshIdle
    /\ CommandIdle
    /\ Dispatched("main_analyze")

\* main_analyze, lines 66-68: no --ssh-host, so the local cloud-init logs
\* are loaded.
AnalyzeLoadCloudinit ==
    /\ pc = "main_analyze"
    /\ args.ssh_host = None
    /\ \E c \in CloudinitLists : cloudinits' = c
    /\ pc' = "load_journal"
    /\ UNCHANGED <<argv, args, journals, sysevents, exc, report, gvars, svars>>
    /\ UNCHANGED <<kvars, xvars>>

\* main_analyze, line 69: the journal parser returns the journals or fails
\* with UnreadableJournal, which nothing in main_analyze or main catches.
AnalyzeLoadJournal ==
    /\ pc = "load_journal"
    /\ \/ /\ \E j \in JournalLists : journals' = j
          /\ pc' = "load_systemd"
          /\ exc' = exc
       \/ /\ exc' = "UnreadableJournal"
          /\ pc' = "aborted"
          /\ journals' = journals
    /\ UNCHANGED <<argv, args, cloudinits, sysevents, report, gvars, svars>>
    /\ UNCHANGED <<kvars, xvars>>

\* main_analyze, line 70: the systemd parser returns the state or fails with
\* UnitQueryFailed, which nothing in main_analyze or main catches.
AnalyzeLoadSystemd ==
    /\ pc = "load_systemd"
    /\ \/ /\ \E e \in SystemdChoices : sysevents' = e
          /\ pc' = "analyze_events"
          /\ exc' = exc
       \/ /\ exc' = "UnitQueryFailed"
          /\ pc' = "aborted"
          /\ sysevents' = sysevents
    /\ UNCHANGED <<argv, args, cloudinits, journals, report, gvars, svars>>
    /\ UNCHANGED <<kvars, xvars>>

\* A classified event: the record, its source, its place in the source and
\* the boot it belongs to (0 = most recent).
Tag(source, boot, pos, r) ==
    [source |-> source, boot_id |-> boot, pos |-> pos,
     known |-> r.known, instant |-> r.instant, kind |-> r.kind]

\* The events of a list of logs, oldest boot first.
RECURSIVE TagLogs(_, _, _)
TagLogs(source, logs, base) ==
    IF logs = <<>> THEN <<>>
    ELSE LET log == Head(logs)
         IN  [i \in 1..Len(log) |-> Tag(source, Len(logs) - 1, base + i, log[i])]
             \o TagLogs(source, Tail(logs), base + Len(log))

CollectEvents(js, cs, sd) ==
    TagLogs("journal", js, 0)
    \o TagLogs("cloud-init", [i \in DOMAIN cs |-> cs[i].events], 0)
    \o TagLogs("systemd", <<sd>>, 0)

\* Current boot only: the records of boot 0, taken before the merge.
CurrentBoot(evs, boot) ==
    IF boot THEN SelectSeq(evs, LAMBDA e : e.boot_id = 0) ELSE evs

\* An order that reads an unknown instant as instant 0.
Before_UnknownAsZero(a, b) ==
    \/ a.boot_id > b.boot_id
    \/ a.boot_id = b.boot_id /\ a.instant < b.instant

\* The timeline's order: boots oldest first; within a boot known instants
\* ascending, unknown instants last.
Before(a, b) ==
    \/ a.boot_id > b.boot_id
    \/ /\ a.boot_id = b.boot_id
       /\ \/ a.known /\ ~b.known
          \/ a.known /\ b.known /\ a.instant < b.instant

RECURSIVE InsertEvent(_, _)
InsertEvent(s, e) ==
    IF s = <<>> THEN <<e>>
    ELSE IF Before(e, Head(s)) THEN <<e>> \o s
    ELSE <<Head(s)>> \o InsertEvent(Tail(s), e)

\* An assembler that concatenates the sources without sorting.
MergeEvents_Concatenated(s) == s

\* The merge: a stable sort, so events the order does not separate keep the
\* order they arrived in.
RECURSIVE MergeEvents(_)
MergeEvents(s) ==
    IF s = <<>> THEN <<>>
    ELSE InsertEvent(MergeEvents(SubSeq(s, 1, Len(s) - 1)), s[Len(s)])

\* The event-kind filter, applied after the merge; an empty list allows all.
FilterKinds(evs, event_types) ==
    IF event_types = <<>> THEN evs
    ELSE SelectSeq(evs, LAMBDA e : e.kind \in Range(event_types))

AnalyzeEvents(js, cs, sd, boot, event_types) ==
    FilterKinds(MergeEvents(CurrentBoot(CollectEvents(js, cs, sd), boot)), event_types)

Present(evs, kind) == \E i \in DOMAIN evs : evs[i].kind = kind

FirstOf(evs, kind) ==
    evs[CHOOSE i \in DOMAIN evs :
            evs[i].kind = kind /\ \A j \in 1..(i - 1) : evs[j].kind # kind]

LastOf(evs, kind) ==
    evs[CHOOSE i \in DOMAIN evs :
            evs[i].kind = kind /\ \A j \in (i + 1)..Len(evs) : evs[j].kind # kind]

\* A metric computed whenever its first endpoint is present.
Duration_StartOnly(evs, from, to) ==
    IF Present(evs, from)
    THEN {(IF Present(evs, to) THEN LastOf(evs, to).instant ELSE 0)
              - FirstOf(evs, from).instant}
    ELSE Null

\* The summary duration of a well-known pair of event kinds: from the first
\* event of the one kind to the last event of the other, in the merged
\* sequence; null when an endpoint is missing.
Duration(evs, from, to) ==
    IF Present(evs, from) /\ Present(evs, to)
    THEN {LastOf(evs, to).instant - FirstOf(evs, from).instant}
    ELSE Null

\* The metrics of the report, computed on the merged sequence.
SummaryDurations(js, cs, sd, boot) ==
    LET merged == AnalyzeEvents(js, cs, sd, boot, <<>>)
    IN  [boot_to_final |-> Duration(merged, "boot-milestone", "cloud-init-stage-end")]

\* The keyword arguments of a call of analyze_events.
AnalyzeEventsCall(boot, event_types) ==
    [made |-> TRUE, boot |-> boot, event_types |-> event_types]

\* main_analyze, lines 72-79: the report is assembled and printed.
AnalyzeReport ==
    /\ pc = "analyze_events"
    /\ call' = AnalyzeEventsCall(args.boot, args.event_type)
    /\ report' = AnalyzeEvents(journals, cloudinits, sysevents, call'.boot,
                               call'.event_types)
    /\ durations' = SummaryDurations(journals, cloudinits, sysevents, call'.boot)
    /\ pc' = "done"
    /\ UNCHANGED <<argv, args, cloudinits, journals, sysevents, exc, gvars, svars>>
    /\ UNCHANGED <<func, images, xvars>>

NextAnalyze ==
    AnalyzeLoadCloudinit \/ AnalyzeLoadJournal \/ AnalyzeLoadSystemd \/ AnalyzeReport

AnalyzeSpec == InitAnalyze /\ [][NextAnalyze]_vars

(***************************************************************************)
(* The entry points: the handler main calls through args.func, and what    *)
(* each hands to analyze_events or to ServiceGraph.                        *)
(***************************************************************************)
\* Largest number of images named on a launch-azure-instance command line.
MaxImages == 2

DirectHandlers ==
    {"main_analyze_cloudinit", "main_analyze_journal", "main_launch_azure_instance"}

\* Two snapshots: no relation declared, and two units that name each other.
EntrySnapshots ==
    {[n \in Units |-> UnitNode(rel, AllRan, n)] :
        rel \in {{}, {<<"u1", "u2", "after">>, <<"u2", "u1", "requires">>}}}

\* The logs of a machine that has booted once.
FreshJournalLists == {<<j0>> : j0 \in AtMostOne(Records(0, JournalKinds))}

FreshCloudinitLists ==
    {<<CloudinitLog(c0)>> : c0 \in AtMostOne(Records(0, {"cloud-init-stage-end"}))}

\* main, line 341: args.func(args, ssh_mgr), for the three handlers that are
\* single steps here.
InitDirect ==
    /\ func \in DirectHandlers
    /\ pc = func
    /\ argv \in AnalyzeArgv
    /\ args = ParseArgs(argv)
    /\ images \in IF func = "main_launch_azure_instance" THEN 1..MaxImages ELSE {0}
    /\ call = NoCall
    /\ durations = NoDurations
    /\ cloudinits = <<>>
    /\ journals = <<>>
    /\ sysevents = <<>>
    /\ exc = None
    /\ report = <<>>
    /\ GraphIdle
    /\ SshIdle
    /\ CommandIdle

InitEntry ==
    \/ InitAnalyze
    \/ InitDirect
    \/ InitGraph /\ units \in EntrySnapshots /\ cloudinits = <<>>

\* main_analyze_cloudinit, lines 82-93.
MainAnalyzeCloudinit ==
    /\ pc = "main_analyze_cloudinit"
    /\ args.ssh_host = None
    /\ \E c \in CloudinitLists : cloudinits' = c
    /\ call' = AnalyzeEventsCall(args.boot, args.event_type)
    /\ report' = AnalyzeEvents(<<>>, cloudinits', <<>>, call'.boot, call'.event_types)
    /\ durations' = SummaryDurations(<<>>, cloudinits', <<>>, call'.boot)
    /\ pc' = "done"
    /\ UNCHANGED <<argv, args, journals, sysevents, exc, gvars, svars, func,
                   images, xvars>>

\* main_analyze_journal, lines 96-107.
MainAnalyzeJournal ==
    /\ pc = "main_analyze_journal"
    /\ args.ssh_host = None
    /\ \/ /\ \E j \in JournalLists : journals' = j
          /\ call' = AnalyzeEventsCall(args.boot, args.event_type)
          /\ report' = AnalyzeEvents(journals', <<>>, <<>>, call'.boot,
                                     call'.event_types)
          /\ durations' = SummaryDurations(journals', <<>>, <<>>, call'.boot)
          /\ pc' = "done"
          /\ exc' = exc
       \/ /\ exc' = "UnreadableJournal"
          /\ pc' = "aborted"
          /\ UNCHANGED <<journals, call, report, durations>>
    /\ UNCHANGED <<argv, args, cloudinits, sysevents, gvars, svars, func, images,
                   xvars>>

\* main_launch_azure_instance, lines 155-192, one image: the machine is
\* launched, its logs are loaded and analyzed, the report is printed.
MainLaunchAzureInstance ==
    /\ pc = "main_launch_azure_instance"
    /\ images > 0
    /\ images' = images - 1
    /\ \/ /\ \E c \in FreshCloudinitLists : cloudinits' = c
          /\ \E j \in FreshJournalLists : journals' = j
          /\ \E e \in SystemdChoices : sysevents' = e
          /\ call' = AnalyzeEventsCall(TRUE, args.event_type)
          /\ report' = AnalyzeEvents(journals', cloudinits', sysevents', call'.boot,
                                     call'.event_types)
          /\ durations' = SummaryDurations(journals', cloudinits', sysevents',
                                           call'.boot)
          /\ pc' = IF images' = 0 THEN "done" ELSE pc
          /\ exc' = exc
       \/ /\ exc' \in {"UnreadableJournal", "UnitQueryFailed"}
          /\ pc' = "aborted"
          /\ UNCHANGED <<cloudinits, journals, sysevents, call, report, durations>>
    /\ UNCHANGED <<argv, args, gvars, svars, func, xvars>>

NextEntry ==
    \/ NextAnalyze
    \/ NextGraph
    \/ MainAnalyzeCloudinit
    \/ MainAnalyzeJournal
    \/ MainLaunchAzureInstance

EntrySpec == InitEntry /\ [][NextEntry]_vars

(***************************************************************************)
(* Properties of the analyze command.                                      *)
(***************************************************************************)
Reported == pc = "done" /\ argv \in AnalyzeArgv

Collected == CurrentBoot(CollectEvents(journals, cloudinits, sysevents), args.boot)

\* The timeline the same inputs give with no event-kind filter.
Unfiltered == AnalyzeEvents(journals, cloudinits, sysevents, args.boot, <<>>)

PosIn(s, e) == CHOOSE i \in DOMAIN s : s[i] = e

\* C6: in the reported timeline an event with an earlier known instant comes
\* before an event with a later known instant, whatever their sources.
C6_OrderedByInstant ==
    Reported =>
        \A i, j \in DOMAIN report :
            /\ report[i].known
            /\ report[j].known
            /\ report[i].instant < report[j].instant
            => i < j

\* A cloud-init event reported between two journal events, by its instant.
C6_Witness ==
    /\ Reported
    /\ \E i, j, k \in DOMAIN report :
           /\ i < j /\ j < k
           /\ report[i].source = "journal" /\ report[k].source = "journal"
           /\ report[j].source = "cloud-init"
           /\ report[i].known /\ report[j].known /\ report[k].known
           /\ report[i].instant < report[j].instant
           /\ report[j].instant < report[k].instant

\* C7: within a boot the events with unknown instant come after every event
\* with a known instant, and events with unknown instant of one source keep
\* the order they had in that source.
C7_UnknownLast ==
    Reported =>
        \A i, j \in DOMAIN report :
            /\ (/\ report[i].boot_id = report[j].boot_id
                /\ report[i].known
                /\ ~report[j].known) => i < j
            /\ (/\ ~report[i].known
                /\ ~report[j].known
                /\ report[i].source = report[j].source
                /\ report[i].pos < report[j].pos) => i < j

\* Two journal events with unknown instant reported, in their order, after a
\* known event of their boot, and an older boot's unknown event before it.
C7_Witness ==
    /\ Reported
    /\ \E h, i, j, k \in DOMAIN report :
           /\ h < i /\ i < j /\ j < k
           /\ ~report[h].known /\ report[h].boot_id = 1
           /\ report[i].known /\ report[i].boot_id = 0
           /\ ~report[j].known /\ ~report[k].known
           /\ report[j].source = "journal" /\ report[k].source = "journal"
           /\ report[j].pos < report[k].pos

\* C8: with --event-type given, the report is the subsequence of the
\* unfiltered timeline made of the events of the kinds given, in the same
\* order; with none given every classified event is reported.
C8_FilterKeepsOrder ==
    Reported =>
        LET unfiltered == Unfiltered
            collected == Collected
        IN  IF argv.event_type = <<>>
            THEN /\ report = unfiltered
                 /\ Range(report) = Range(collected)
                 /\ Len(report) = Len(collected)
            ELSE /\ Range(report)
                        = {e \in Range(unfiltered) : e.kind \in Range(argv.event_type)}
                 /\ \A i, j \in DOMAIN report :
                        i < j => PosIn(unfiltered, report[i]) < PosIn(unfiltered, report[j])

\* A filter that drops an event lying between two events it keeps.
C8_Witness ==
    /\ Reported
    /\ argv.event_type # <<>>
    /\ Len(report) = 2
    /\ PosIn(Unfiltered, report[2]) - PosIn(Unfiltered, report[1]) = 2

\* C9: when a source is unusable the handler goes on with the other sources
\* and prints a report instead of aborting.
C9_ProceedsWithoutSource ==
    exc \in {"UnreadableJournal", "UnitQueryFailed"} => pc # "aborted"

(***************************************************************************)
(* The collection step: SshManager.connect, SSH.connect_with_retries and   *)
(* the first remote command of a loader.                                   *)
(***************************************************************************)
\* connect_with_retries: timeout_seconds, scaled down from its default of 300.
TimeoutSeconds == 5

\* A retry loop that does not sleep between attempts.
RetrySleep_Zero == 1 - 1

\* connect_with_retries: retry_sleep, in seconds.
RetrySleep == 1

\* How long one connect() may take, in seconds.
ConnectDurations == {0, 1, 2}

CollectArgv ==
    [service : {None},
     filter_service : {<<>>},
     filter_conditional_result_no : {FALSE},
     boot : {FALSE},
     event_type : {<<>>},
     ssh_host : {None, "vm"},
     ssh_proxy_host : {None, "jump"}]

InitCollect ==
    /\ pc = "ssh_mgr_connect"
    /\ argv \in CollectArgv
    /\ args = ParseArgs(argv)
    /\ cloudinits = <<>>
    /\ journals = <<>>
    /\ sysevents = <<>>
    /\ exc = None
    /\ report = <<>>
    /\ GraphIdle
    /\ SshIdle
    /\ CommandIdle
    /\ Dispatched("main_analyze")

\* What SshManager.connect returns once connect_with_retries has returned.
Returned(result) == "SSH"

\* SshManager.connect, lines 29-39, and connect_with_retries, line 112: no
\* SSH object for an empty host; otherwise one is made and its deadline set.
SshManagerConnect ==
    /\ pc = "ssh_mgr_connect"
    /\ IF args.ssh_host = None
       THEN /\ ssh' = None
            /\ pc' = "load"
            /\ timeout' = timeout
       ELSE /\ timeout' = TimeoutSeconds + now
            /\ pc' = "connect"
            /\ ssh' = ssh
    /\ UNCHANGED <<argv, args, cloudinits, gvars, avars, client, proxy_client,
                   transport, proxy_sock, now, retval, attempts, ran>>
    /\ UNCHANGED <<kvars, xvars>>

\* SSH.connect inside the try of connect_with_retries: it connects, or it
\* raises an exception the loop catches, or (through a proxy whose transport
\* is gone) the RuntimeError that the loop does not catch.
SshConnect ==
    /\ pc = "connect"
    /\ \E d \in ConnectDurations : now' = now + d
    /\ attempts' = attempts + 1
    /\ \/ /\ client' = "connected"
          /\ proxy_client' = IF args.ssh_proxy_host = None THEN None ELSE "connected"
          /\ transport' = IF args.ssh_proxy_host = None THEN None ELSE "open"
          /\ proxy_sock' = IF args.ssh_proxy_host = None THEN None ELSE "open"
          /\ retval' = "True"
          /\ ssh' = Returned("True")
          /\ pc' = "load"
          /\ exc' = exc
       \/ /\ client' = "created"
          /\ \/ /\ args.ssh_proxy_host = None
                /\ proxy_client' = None /\ transport' = None /\ proxy_sock' = None
             \/ /\ args.ssh_proxy_host # None
                /\ \/ proxy_client' = "created" /\ transport' = None /\ proxy_sock' = None
                   \/ proxy_client' = "connected" /\ transport' = "open" /\ proxy_sock' = None
                   \/ proxy_client' = "connected" /\ transport' = "open" /\ proxy_sock' = "open"
          /\ pc' = "failed"
          /\ UNCHANGED <<retval, ssh, exc>>
       \/ /\ args.ssh_proxy_host # None
          /\ client' = "created"
          /\ proxy_client' = "connected"
          /\ transport' = None
          /\ proxy_sock' = None
          /\ exc' = "RuntimeError"
          /\ pc' = "aborted"
          /\ UNCHANGED <<retval, ssh>>
    /\ UNCHANGED <<argv, args, cloudinits, gvars, journals, sysevents, report,
                   timeout, ran>>
    /\ UNCHANGED <<kvars, xvars>>

\* connect_with_retries, lines 130-137: close(), then sleep and retry while
\* the sleep ends before the deadline, else return False; SshManager.connect,
\* line 41, then returns the SSH object.
SshCloseAndRetry ==
    /\ pc = "failed"
    /\ client' = None
    /\ proxy_sock' = None
    /\ transport' = None
    /\ proxy_client' = None
    /\ IF now + RetrySleep < timeout
       THEN /\ now' = now + RetrySleep
            /\ pc' = "connect"
            /\ UNCHANGED <<retval, ssh>>
       ELSE /\ retval' = "False"
            /\ ssh' = Returned("False")
            /\ pc' = "load"
            /\ now' = now
    /\ UNCHANGED <<argv, args, cloudinits, gvars, avars, timeout, attempts, ran>>
    /\ UNCHANGED <<kvars, xvars>>

\* SSH.run, line 202: assert self.client.
RunAsserts == client # None

\* load_cloudinit, lines 44-48: with an SSH object the log is fetched by a
\* remote command, which SSH.run refuses on a client that is None; with
\* none the local log is read.
CollectLoad ==
    /\ pc = "load"
    /\ IF ssh = None
       THEN /\ pc' = "collected"
            /\ UNCHANGED <<ran, exc>>
       ELSE /\ ran' = ran + 1
            /\ IF RunAsserts
               THEN pc' = "collected" /\ exc' = exc
               ELSE pc' = "aborted" /\ exc' = "AssertionError"
    /\ UNCHANGED <<argv, args, cloudinits, gvars, journals, sysevents, report,
                   ssh, client, proxy_client, transport, proxy_sock, now,
                   timeout, retval, attempts>>
    /\ UNCHANGED <<kvars, xvars>>

NextCollect == SshManagerConnect \/ SshConnect \/ SshCloseAndRetry \/ CollectLoad

CollectSpec == InitCollect /\ [][NextCollect]_vars

\* connect_with_retries called on a fresh SSH object, with a timeout_seconds
\* of zero or more; line 112 sets the deadline.
InitRetry ==
    /\ pc = "connect"
    /\ argv \in {a \in CollectArgv : a.ssh_host # None}
    /\ args = ParseArgs(argv)
    /\ cloudinits = <<>>
    /\ journals = <<>>
    /\ sysevents = <<>>
    /\ exc = None
    /\ report = <<>>
    /\ GraphIdle
    /\ ssh = None
    /\ client = None
    /\ proxy_client = None
    /\ transport = None
    /\ proxy_sock = None
    /\ now = 0
    /\ timeout \in {timeout_seconds + now : timeout_seconds \in 0..TimeoutSeconds}
    /\ retval = None
    /\ attempts = 0
    /\ ran = 0
    /\ CommandIdle
    /\ Dispatched("main_analyze")

NextRetry == SshConnect \/ SshCloseAndRetry

\* connect_with_retries is a sequential loop and time advances: it keeps
\* taking its next step.
RetryFair == InitRetry /\ [][NextRetry]_vars /\ WF_vars(NextRetry)

Finished == pc \in {"load", "aborted"}

\* C10: for a non-empty host the loaders are handed an SSH object only
\* after a connection attempt succeeded, and no remote command is attempted
\* on a client that never connected.
C10_ConnectedOrFailFast ==
    /\ ssh # None => retval = "True"
    /\ ran > 0 => retval = "True"

(***************************************************************************)
(* Further properties of the analyze command.                              *)
(***************************************************************************)
BothEndpointsIn(timeline) ==
    /\ Present(timeline, "boot-milestone")
    /\ Present(timeline, "cloud-init-stage-end")

\* C14: the duration from boot-milestone to cloud-init-stage-end is computed
\* if and only if both events are in the merged sequence, and is then the
\* instant of the last stage end less the instant of the first milestone;
\* with an endpoint missing it is null, and the report is assembled all the
\* same: in every report the metric is null or one number, and no exception
\* is left.
C14_DurationIffEndpoints ==
    Reported =>
        LET merged == Unfiltered
            both == BothEndpointsIn(merged)
        IN  /\ exc = None
            /\ durations.boot_to_final # Null <=> both
            /\ both =>
                   durations.boot_to_final
                       = {LastOf(merged, "cloud-init-stage-end").instant
                              - FirstOf(merged, "boot-milestone").instant}

\* A report with a boot milestone and no cloud-init stage end: the duration
\* is null and the events are reported.
C14_Witness ==
    /\ Reported
    /\ Present(Unfiltered, "boot-milestone")
    /\ ~Present(Unfiltered, "cloud-init-stage-end")
    /\ durations.boot_to_final = Null
    /\ report # <<>>

(***************************************************************************)
(* Further properties of the graph command.                                *)
(***************************************************************************)
DeclaredIn(snapshot, n) ==
    IF n \in DOMAIN snapshot
    THEN snapshot[n].requires \cup snapshot[n].wants \cup snapshot[n].after
    ELSE {}

RECURSIVE Closure(_, _, _)
Closure(snapshot, S, excluded) ==
    LET next == S \cup UNION {DeclaredIn(snapshot, n) : n \in S \ excluded}
    IN  IF next = S THEN S ELSE Closure(snapshot, next, excluded)

\* The node set and the edge set as functions of the root, the excluded
\* names and the snapshot, and of nothing else.
TopologyNodes(root, excluded, snapshot) == Closure(snapshot, {root}, excluded)

TopologyEdges(root, excluded, snapshot) ==
    LET expanded == (TopologyNodes(root, excluded, snapshot) \ excluded)
                        \cap DOMAIN snapshot
    IN  UNION {{[from |-> n, to |-> t, kind |-> "requirement"] :
                    t \in snapshot[n].requires \cup snapshot[n].wants}
               \cup {[from |-> n, to |-> t, kind |-> "ordering"] :
                        t \in snapshot[n].after} : n \in expanded}

\* C12: the frames never affect the topology: the node set and the edge set
\* built are those the root, the exclusions and the snapshot determine, and
\* the nodes and edges printed are those printed with no frames at all,
\* whether main_graph found a cloud-init log or not.
C12_FramesLeaveTopology ==
    Built =>
        LET bare == GenerateDigraph(nodes, edges, sg.filter_conditional_result_no, <<>>)
        IN  /\ nodes = TopologyNodes(args.service, UserExcluded, units)
            /\ edges = TopologyEdges(args.service, UserExcluded, units)
            /\ digraph.nodes = bare.nodes
            /\ digraph.edges = bare.edges

\* A graph of several nodes printed with the frames of a cloud-init log.
C12_Witness ==
    /\ Built
    /\ digraph.frames # <<>>
    /\ Len(digraph.nodes) >= 2
    /\ digraph.edges # <<>>

\* What is printed, as a function of the arguments alone; the exclusions
\* enter as a set of names.
Output(root, excluded, flag, snapshot, frames) ==
    GenerateDigraph(TopologyNodes(root, excluded, snapshot),
                    TopologyEdges(root, excluded, snapshot), flag, frames)

Ascending(s) == \A i, j \in DOMAIN s : i < j => Rank(s[i]) <= Rank(s[j])

\* C13: the exclusion list reaches the builder in sorted order; the nodes
\* are printed in lexicographic order of their names and the edges in
\* lexicographic order of their end points; and what is printed is a
\* function of the root, the set of excluded names, the flag, the snapshot
\* and the frames, so that neither a second run nor another order of the
\* --filter-service names changes it.
C13_DeterministicOutput ==
    /\ sg # NoGraph =>
           /\ Ascending(sg.filter_services)
           /\ Len(sg.filter_services) = Len(argv.filter_service)
           /\ Range(sg.filter_services) = Range(argv.filter_service)
    /\ Built =>
           /\ \A i, j \in DOMAIN digraph.nodes :
                  i < j => Rank(digraph.nodes[i].name) < Rank(digraph.nodes[j].name)
           /\ \A i, j \in DOMAIN digraph.edges :
                  i < j => EdgeKey(digraph.edges[i]) < EdgeKey(digraph.edges[j])
           /\ digraph = Output(argv.service, Range(argv.filter_service),
                               argv.filter_conditional_result_no, units, GraphFrames)

\* Two names typed in descending order, handed over in ascending order,
\* and a graph of several nodes and edges printed.
C13_Witness ==
    /\ Built
    /\ argv.filter_service = <<"u3", "u2">>
    /\ sg.filter_services = <<"u2", "u3">>
    /\ Len(digraph.nodes) >= 3
    /\ Len(digraph.edges) >= 2

(***************************************************************************)
(* Properties of the entry points.                                         *)
(***************************************************************************)
\* C11: every entry point hands the caller's knobs on unchanged:
\* analyze_events is called with the --boot flag and the --event-type list
\* as typed, whichever handler calls it, and ServiceGraph is given the root
\* service, the names excluded and the conditional-result flag as typed.
C11_KnobsForwarded ==
    /\ call.made => call.boot = argv.boot /\ call.event_types = argv.event_type
    /\ sg # NoGraph =>
           /\ sg.service = argv.service
           /\ Range(sg.filter_services) = Range(argv.filter_service)
           /\ sg.filter_conditional_result_no = argv.filter_conditional_result_no

(***************************************************************************)
(* SSH.run: one command run over a channel of the connected client.  The   *)
(* command's output, exit status and EOF arrive through the transport's    *)
(* thread while SSH.run polls the channel.                                 *)
(***************************************************************************)
\* recv_len, scaled down from its default of 64 * 1024.
RecvLen == 2

\* Bytes: 65 is "A", 10 is a newline, 195 169 is the UTF-8 encoding of
\* "e-acute", and 255 is not valid UTF-8.
StdoutChoices == {<<>>, <<65, 10>>, <<195, 169>>, <<255>>}

StderrChoices == {<<>>, <<65>>}

ExitStatuses == {0, 1}

FlagChoices == [capture_output : BOOLEAN, check : BOOLEAN, text : BOOLEAN]

Bytes(b) == [type |-> "bytes", data |-> b]

Str(s) == [type |-> "str", data |-> s]

\* bytes.decode(encoding="utf-8", errors="strict") fails on a byte sequence
\* that is not UTF-8 ...
RECURSIVE Decodable(_)
Decodable(b) ==
    IF b = <<>> THEN TRUE
    ELSE IF Head(b) \in {65, 10} THEN Decodable(Tail(b))
    ELSE IF Head(b) = 195 /\ Len(b) >= 2 /\ b[2] = 169 THEN Decodable(Tail(Tail(b)))
    ELSE FALSE

\* ... and gives the characters of one that is.
RECURSIVE Decode(_)
Decode(b) ==
    IF b = <<>> THEN <<>>
    ELSE IF Head(b) = 65 THEN <<"A">> \o Decode(Tail(b))
    ELSE IF Head(b) = 10 THEN <<"\n">> \o Decode(Tail(b))
    ELSE <<"e-acute">> \o Decode(Tail(Tail(b)))

Completed(rc, out, err) ==
    [kind |-> "CompletedProcess", returncode |-> rc, stdout |-> out, stderr |-> err]

Raised(kind, rc, out, err) ==
    [kind |-> kind, returncode |-> rc, stdout |-> out, stderr |-> err]

\* SSH.run, lines 268-283: what is returned or raised once the exit status
\* and the outputs are read.
CompleteRun(rc, out, err, f) ==
    IF f.check /\ rc # 0
    THEN Raised("CalledProcessError", rc, Bytes(out), Bytes(err))
    ELSE IF ~f.text
    THEN IF f.capture_output THEN Completed(rc, Bytes(out), Bytes(err))
         ELSE Completed(rc, NoneValue, NoneValue)
    ELSE IF ~f.capture_output
    THEN Raised("AssertionError", rc, NoneValue, NoneValue)
    ELSE IF ~Decodable(out) \/ ~Decodable(err)
    THEN Raised("UnicodeDecodeError", rc, NoneValue, NoneValue)
    ELSE Completed(rc, Str(Decode(out)), Str(Decode(err)))

\* SSH.run is called on a connected SSH object.
InitRun ==
    /\ pc = "run"
    /\ argv \in {a \in CollectArgv : a.ssh_host # None /\ a.ssh_proxy_host = None}
    /\ args = ParseArgs(argv)
    /\ cloudinits = <<>>
    /\ journals = <<>>
    /\ sysevents = <<>>
    /\ exc = None
    /\ report = <<>>
    /\ GraphIdle
    /\ ssh = "SSH"
    /\ client \in {"connected", None}
    /\ proxy_client = None
    /\ transport = None
    /\ proxy_sock = None
    /\ now = 0
    /\ timeout = 0
    /\ retval = IF client = None THEN "False" ELSE "True"
    /\ attempts = 1
    /\ ran = 0
    /\ Dispatched("main_analyze")
    /\ flags \in FlagChoices
    /\ cmd_out \in StdoutChoices
    /\ cmd_err \in StderrChoices
    /\ exit_status \in ExitStatuses
    /\ ChannelFresh
    /\ fetcher = None
    /\ FetchFresh
    /\ wait_attempts = 0
    /\ WaitFresh
    /\ SelftestIdle

runlocals == <<flags, cmd_out, cmd_err, exit_status>>

channel == <<in_buffer, in_stderr_buffer, exit_ready, eof_received>>

others == <<argv, args, cloudinits, gvars, avars, ssh, client, proxy_client,
            transport, proxy_sock, now, timeout, retval, attempts, kvars, fvars,
            wvars, tvars>>

\* Lines 198-215: the client is asserted, a session channel is opened and
\* the command is started.
RunStart ==
    /\ pc = "run"
    /\ ran' = ran + 1
    /\ IF RunAsserts
       THEN pc' = "while_exit" /\ outcome' = outcome
       ELSE pc' = "raised" /\ outcome' = Raised("AssertionError", -1, NoneValue, NoneValue)
    /\ UNCHANGED <<others, runlocals, channel, stdout_io, stderr_io, returncode,
                   closed>>

Running == pc \notin {"run", "returned", "raised"} /\ ~closed

\* The transport's thread: a stdout byte, a stderr byte, the exit status or
\* EOF arrives.  EOF comes after all the output; the exit status comes at
\* any time.
ArriveStdout ==
    /\ Running
    /\ ~eof_received
    /\ Len(stdout_io) + Len(in_buffer) < Len(cmd_out)
    /\ in_buffer' = Append(in_buffer, cmd_out[Len(stdout_io) + Len(in_buffer) + 1])
    /\ UNCHANGED <<pc, others, ran, runlocals, in_stderr_buffer, exit_ready,
                   eof_received, stdout_io, stderr_io, returncode, outcome, closed>>

ArriveStderr ==
    /\ Running
    /\ ~eof_received
    /\ Len(stderr_io) + Len(in_stderr_buffer) < Len(cmd_err)
    /\ in_stderr_buffer' =
           Append(in_stderr_buffer, cmd_err[Len(stderr_io) + Len(in_stderr_buffer) + 1])
    /\ UNCHANGED <<pc, others, ran, runlocals, in_buffer, exit_ready,
                   eof_received, stdout_io, stderr_io, returncode, outcome, closed>>

ArriveExitStatus ==
    /\ Running
    /\ ~exit_ready
    /\ exit_ready' = TRUE
    /\ UNCHANGED <<pc, others, ran, runlocals, in_buffer, in_stderr_buffer,
                   eof_received, stdout_io, stderr_io, returncode, outcome, closed>>

ArriveEof ==
    /\ Running
    /\ ~eof_received
    /\ Len(stdout_io) + Len(in_buffer) = Len(cmd_out)
    /\ Len(stderr_io) + Len(in_stderr_buffer) = Len(cmd_err)
    /\ eof_received' = TRUE
    /\ UNCHANGED <<pc, others, ran, runlocals, in_buffer, in_stderr_buffer,
                   exit_ready, stdout_io, stderr_io, returncode, outcome, closed>>

\* Lines 220-225, the condition of the while loop: four calls on the
\* channel, one after the other, the first that holds entering the body.
WhileExit ==
    /\ pc = "while_exit"
    /\ pc' = IF ~exit_ready THEN "body" ELSE "while_recv"
    /\ UNCHANGED <<others, ran, rvars>>

WhileRecv ==
    /\ pc = "while_recv"
    /\ pc' = IF in_buffer # <<>> THEN "body" ELSE "while_stderr"
    /\ UNCHANGED <<others, ran, rvars>>

WhileStderr ==
    /\ pc = "while_stderr"
    /\ pc' = IF in_stderr_buffer # <<>> THEN "body" ELSE "while_eof"
    /\ UNCHANGED <<others, ran, rvars>>

WhileEof ==
    /\ pc = "while_eof"
    /\ pc' = IF ~eof_received THEN "body" ELSE "exit_status"
    /\ UNCHANGED <<others, ran, rvars>>

Chunk(buffer) == SubSeq(buffer, 1, IF Len(buffer) < RecvLen THEN Len(buffer) ELSE RecvLen)

Rest(buffer) == SubSeq(buffer, Len(Chunk(buffer)) + 1, Len(buffer))

\* Lines 236-243: if stdout is ready it is read until recv returns nothing,
\* which it does at EOF; a recv with nothing to read and no EOF waits, and
\* gives up with socket.timeout when the channel's timeout passes.
ReadStdout ==
    /\ pc \in {"body", "recv"}
    /\ IF in_buffer # <<>>
       THEN /\ stdout_io' = stdout_io \o Chunk(in_buffer)
            /\ in_buffer' = Rest(in_buffer)
            /\ pc' = "recv"
            /\ outcome' = outcome
       ELSE /\ UNCHANGED <<stdout_io, in_buffer>>
            /\ IF pc = "body" \/ eof_received
               THEN pc' = "if_stderr" /\ outcome' = outcome
               ELSE /\ pc' = "raised"
                    /\ outcome' = Raised("socket.timeout", -1, NoneValue, NoneValue)
    /\ UNCHANGED <<others, ran, runlocals, in_stderr_buffer, exit_ready,
                   eof_received, stderr_io, returncode, closed>>

\* Lines 245-252: the same for stderr; lines 254-255: back to the condition.
ReadStderr ==
    /\ pc \in {"if_stderr", "recv_stderr"}
    /\ IF in_stderr_buffer # <<>>
       THEN /\ stderr_io' = stderr_io \o Chunk(in_stderr_buffer)
            /\ in_stderr_buffer' = Rest(in_stderr_buffer)
            /\ pc' = "recv_stderr"
            /\ outcome' = outcome
       ELSE /\ UNCHANGED <<stderr_io, in_stderr_buffer>>
            /\ IF pc = "if_stderr" \/ eof_received
               THEN pc' = "while_exit" /\ outcome' = outcome
               ELSE /\ pc' = "raised"
                    /\ outcome' = Raised("socket.timeout", -1, NoneValue, NoneValue)
    /\ UNCHANGED <<others, ran, runlocals, in_buffer, exit_ready, eof_received,
                   stdout_io, returncode, closed>>

\* Lines 257-283: the exit status is read, which waits for it to arrive,
\* the channel is closed, and the outcome is made from the flags.
RunFinish ==
    /\ pc = "exit_status"
    /\ exit_ready
    /\ returncode' = exit_status
    /\ closed' = TRUE
    /\ outcome' = CompleteRun(returncode', stdout_io, stderr_io, flags)
    /\ pc' = IF outcome'.kind = "CompletedProcess" THEN "returned" ELSE "raised"
    /\ UNCHANGED <<others, ran, runlocals, channel, stdout_io, stderr_io>>

NextRun ==
    \/ RunStart
    \/ ArriveStdout
    \/ ArriveStderr
    \/ ArriveExitStatus
    \/ ArriveEof
    \/ WhileExit
    \/ WhileRecv
    \/ WhileStderr
    \/ WhileEof
    \/ ReadStdout
    \/ ReadStderr
    \/ RunFinish

RunSpec == InitRun /\ [][NextRun]_vars

(***************************************************************************)
(* SSH.fetch, SSH.fetch_binary and SSH.fetch_text.  Each SSH.run call is   *)
(* one step: the remote command exits with some status and some output.    *)
(***************************************************************************)
Fetchers == {"fetch", "fetch_binary", "fetch_text"}

RemotePath == "remote_path"

\* A connected SSH object on which no command was run yet.
Connected ==
    /\ argv \in {a \in CollectArgv : a.ssh_host # None /\ a.ssh_proxy_host = None}
    /\ args = ParseArgs(argv)
    /\ cloudinits = <<>>
    /\ journals = <<>>
    /\ sysevents = <<>>
    /\ exc = None
    /\ report = <<>>
    /\ GraphIdle
    /\ ssh = "SSH"
    /\ client = "connected"
    /\ proxy_client = None
    /\ transport = None
    /\ proxy_sock = None
    /\ now = 0
    /\ timeout = 0
    /\ retval = "True"
    /\ attempts = 1
    /\ ran = 0
    /\ Dispatched("main_analyze")
    /\ RunIdle

InitFetch ==
    /\ pc = "fetch"
    /\ Connected
    /\ fetcher \in Fetchers
    /\ FetchFresh
    /\ wait_attempts = 0
    /\ WaitFresh
    /\ SelftestIdle

\* The flags fetch* gives SSH.run: text only from fetch_text, check only on
\* the sudo attempt.
FetchFlags(f, check) ==
    [capture_output |-> TRUE, check |-> check, text |-> (f = "fetch_text")]

RunRecord(c, f, rc, out) ==
    [cmd |-> c, check |-> f.check, returncode |-> rc, stdout |-> out]

\* A fallback taken whatever the plain attempt's status.
CatFailed_Always(p) == TRUE

\* Lines 143, 159, 175: if proc.returncode != 0.
CatFailed(p) == p.returncode # 0

\* Lines 140-143: plain cat, its status not checked.
FetchCat ==
    /\ pc = "fetch"
    /\ cmd' = <<"cat", RemotePath>>
    /\ ran' = ran + 1
    /\ \E rc \in ExitStatuses, out \in StdoutChoices :
           /\ proc' = CompleteRun(rc, out, <<>>, FetchFlags(fetcher, FALSE))
           /\ runs' = Append(runs, RunRecord(cmd', FetchFlags(fetcher, FALSE), rc, out))
    /\ IF proc'.kind # "CompletedProcess"
       THEN pc' = "raised" /\ fetched' = [kind |-> proc'.kind, value |-> NoneValue]
       ELSE /\ pc' = IF CatFailed(proc') THEN "sudo" ELSE "write"
            /\ fetched' = fetched
    /\ UNCHANGED <<argv, args, cloudinits, gvars, avars, ssh, client, proxy_client,
                   transport, proxy_sock, now, timeout, retval, attempts, kvars,
                   rvars, fetcher, local_file, wvars, tvars>>

\* Lines 144-150: sudo is put in front of the command, which is run again
\* with its status checked; CalledProcessError becomes FileNotFoundError.
FetchSudo ==
    /\ pc = "sudo"
    /\ cmd' = <<"sudo">> \o cmd
    /\ ran' = ran + 1
    /\ \E rc \in ExitStatuses, out \in StdoutChoices :
           LET p == CompleteRun(rc, out, <<>>, FetchFlags(fetcher, TRUE))
           IN  /\ runs' = Append(runs, RunRecord(cmd', FetchFlags(fetcher, TRUE), rc, out))
               /\ IF p.kind = "CompletedProcess"
                  THEN proc' = p /\ pc' = "write" /\ fetched' = fetched
                  ELSE /\ proc' = proc
                       /\ pc' = "raised"
                       /\ fetched' =
                              [kind |-> IF p.kind = "CalledProcessError"
                                        THEN "FileNotFoundError" ELSE p.kind,
                               value |-> NoneValue]
    /\ UNCHANGED <<argv, args, cloudinits, gvars, avars, ssh, client, proxy_client,
                   transport, proxy_sock, now, timeout, retval, attempts, kvars,
                   rvars, fetcher, local_file, wvars, tvars>>

\* Lines 152-153, 168-169, 184-185: fetch writes proc.stdout to local_path,
\* fetch_binary and fetch_text return it.
FetchWrite ==
    /\ pc = "write"
    /\ IF fetcher = "fetch"
       THEN /\ local_file' = proc.stdout
            /\ fetched' = [kind |-> "returned", value |-> NoneValue]
       ELSE /\ local_file' = local_file
            /\ fetched' = [kind |-> "returned", value |-> proc.stdout]
    /\ pc' = "returned"
    /\ UNCHANGED <<argv, args, cloudinits, gvars, avars, svars, kvars, rvars,
                   fetcher, cmd, runs, proc, wvars, tvars>>

NextFetch == FetchCat \/ FetchSudo \/ FetchWrite

FetchSpec == InitFetch /\ [][NextFetch]_vars

(***************************************************************************)
(* SSH.wait_for_system_ready.  A str is a sequence of characters, of which *)
(* a word such as "running" stands for its letters.                        *)
(***************************************************************************)
\* attempts, scaled down from its default of 300.
MaxAttempts == 3

Whitespace == {" ", "\n"}

\* What systemctl is-system-running may print.
StatusOutputs ==
    {<<"running", "\n">>, <<"degraded", "\n">>, <<"starting", "\n">>,
     <<" ", "running">>, <<>>}

\* str.strip(): leading and trailing whitespace removed.
RECURSIVE LStrip(_)
LStrip(t) ==
    IF t # <<>> /\ Head(t) \in Whitespace THEN LStrip(Tail(t)) ELSE t

RECURSIVE RStrip(_)
RStrip(t) ==
    IF t # <<>> /\ t[Len(t)] \in Whitespace THEN RStrip(SubSeq(t, 1, Len(t) - 1)) ELSE t

Strip(t) == RStrip(LStrip(t))

Bound(v) == [bound |-> TRUE, value |-> v]

InitWait ==
    /\ pc = "wait_cloud_init"
    /\ Connected
    /\ fetcher = None
    /\ FetchFresh
    /\ wait_attempts \in 0..MaxAttempts
    /\ WaitFresh
    /\ SelftestIdle

\* Lines 293-297: cloud-init status --wait; whatever it raises is dropped.
WaitCloudInit ==
    /\ pc = "wait_cloud_init"
    /\ ran' = ran + 1
    /\ \E failed \in BOOLEAN :
           prelim_failures' = prelim_failures + IF failed THEN 1 ELSE 0
    /\ pc' = "wait_systemd"
    /\ UNCHANGED <<argv, args, cloudinits, gvars, avars, ssh, client, proxy_client,
                   transport, proxy_sock, now, timeout, retval, attempts, kvars,
                   rvars, fvars, wait_attempts, polls, status, seen, waited, tvars>>

\* Lines 299-303: systemctl is-system-running --wait, likewise.
WaitSystemd ==
    /\ pc = "wait_systemd"
    /\ ran' = ran + 1
    /\ \E failed \in BOOLEAN :
           prelim_failures' = prelim_failures + IF failed THEN 1 ELSE 0
    /\ pc' = "poll"
    /\ UNCHANGED <<argv, args, cloudinits, gvars, avars, ssh, client, proxy_client,
                   transport, proxy_sock, now, timeout, retval, attempts, kvars,
                   rvars, fvars, wait_attempts, polls, status, seen, waited, tvars>>

\* Lines 308-321, one turn of the loop: systemctl is-system-running is run
\* and its stripped output returned if it is "degraded" or "running"; an
\* exception of SSH.run leaves the function.
WaitPoll ==
    /\ pc = "poll"
    /\ polls < wait_attempts
    /\ ran' = ran + 1
    /\ polls' = polls + 1
    /\ \/ /\ \E out \in StatusOutputs : status' = Bound(Strip(out))
          /\ seen' = Append(seen, status'.value)
          /\ IF status'.value \in {<<"degraded">>, <<"running">>}
             THEN /\ waited' = [kind |-> "returned", status |-> status'.value]
                  /\ pc' = "returned"
             ELSE /\ waited' = waited
                  /\ pc' = "poll"
       \/ /\ waited' = [kind |-> "RunError", status |-> <<>>]
          /\ pc' = "raised"
          /\ UNCHANGED <<status, seen>>
    /\ UNCHANGED <<argv, args, cloudinits, gvars, avars, ssh, client, proxy_client,
                   transport, proxy_sock, now, timeout, retval, attempts, kvars,
                   rvars, fvars, wait_attempts, prelim_failures,
                   tvars>>

\* Lines 323-324, after the loop: status is read, which fails if no turn of
\* the loop bound it, and SystemReadyTimeout is raised with it.
WaitTimeout ==
    /\ pc = "poll"
    /\ ~(polls < wait_attempts)
    /\ waited' = IF status.bound
                 THEN [kind |-> "SystemReadyTimeout", status |-> status.value]
                 ELSE [kind |-> "UnboundLocalError", status |-> <<>>]
    /\ pc' = "raised"
    /\ UNCHANGED <<argv, args, cloudinits, gvars, avars, svars, kvars, rvars, fvars,
                   wait_attempts, polls, status, seen, prelim_failures, tvars>>

NextWait == WaitCloudInit \/ WaitSystemd \/ WaitPoll \/ WaitTimeout

WaitSpec == InitWait /\ [][NextWait]_vars

(***************************************************************************)
(* Properties of connect_with_retries.                                     *)
(***************************************************************************)
\* C15: connect_with_retries makes at least one attempt whatever the
\* timeout; it returns True with the attempt that connects; it returns False
\* only after a failed attempt, when the retry sleep would not end before
\* the deadline; every sleep it starts ends before the deadline; and it
\* finishes, after no more attempts than the deadline allows sleeps.
C15_RetriesUntilDeadline ==
    /\ [](Finished => attempts >= 1)
    /\ [][client' = "connected" => retval' = "True" /\ pc' = "load"]_vars
    /\ [](retval = "True" => client = "connected")
    /\ [][retval' = "False" /\ retval # "False" =>
             pc = "failed" /\ ~(now + RetrySleep < timeout)]_vars
    /\ [](retval = "False" => attempts >= 1 /\ now + RetrySleep >= timeout)
    /\ [][pc = "failed" /\ pc' = "connect" =>
             now' = now + RetrySleep /\ now' < timeout]_vars
    /\ [](attempts <= IF timeout > 1 THEN timeout ELSE 1)
    /\ <>Finished

\* False returned after three failed attempts and two sleeps.
C15_Witness == retval = "False" /\ attempts = 3 /\ now + RetrySleep >= timeout

\* C16: when connect_with_retries has finished without a connection, by
\* returning False or by an exception leaving it, client, proxy_sock,
\* transport and proxy_client are all None.
C16_ClosedOnFailure ==
    Finished /\ retval # "True" =>
        /\ client = None
        /\ proxy_sock = None
        /\ transport = None
        /\ proxy_client = None

(***************************************************************************)
(* Properties of SSH.run.                                                  *)
(***************************************************************************)
\* C17: the exit status is read only when the command has exited, no
\* stdout or stderr byte is waiting in the channel and EOF has arrived; and
\* what SSH.run has read when it finishes is all the command wrote, in
\* order, however the arrivals interleave with the loop.
C17_StatusReadWhenDrained ==
    /\ pc = "exit_status" =>
           /\ exit_ready
           /\ in_buffer = <<>>
           /\ in_stderr_buffer = <<>>
           /\ eof_received
    /\ closed => stdout_io = cmd_out /\ stderr_io = cmd_err

\* C18: a command that exits with status 0, whatever the three flags,
\* gives a CompletedProcess with that status, whose outputs are None
\* without capture_output, bytes with capture_output and without text, and
\* decoded strings with text; with check and a status other than 0,
\* CalledProcessError is raised with the bytes read, the channel closed.
\* (Outputs that are not UTF-8 are left aside.)
C18_FlagsShapeOutcome ==
    pc \in {"returned", "raised"} /\ closed
    /\ Decodable(stdout_io) /\ Decodable(stderr_io) =>
        /\ returncode = 0 =>
               /\ outcome.kind = "CompletedProcess"
               /\ outcome.returncode = 0
               /\ ~flags.capture_output /\ ~flags.text =>
                      outcome.stdout.type = "None" /\ outcome.stderr.type = "None"
               /\ flags.capture_output /\ ~flags.text =>
                      outcome.stdout = Bytes(stdout_io) /\ outcome.stderr = Bytes(stderr_io)
               /\ flags.text =>
                      /\ outcome.stdout.type = "str"
                      /\ outcome.stderr.type = "str"
                      /\ outcome.stdout.data = Decode(stdout_io)
                      /\ outcome.stderr.data = Decode(stderr_io)
        /\ flags.check /\ returncode # 0 =>
               /\ outcome.kind = "CalledProcessError"
               /\ outcome.returncode = returncode
               /\ outcome.stdout = Bytes(stdout_io)
               /\ outcome.stderr = Bytes(stderr_io)

(***************************************************************************)
(* Properties of SSH.fetch, fetch_binary and fetch_text.                   *)
(***************************************************************************)
LastRun == runs[Len(runs)]

FetchEnded == pc \in {"returned", "raised"}

\* SSH.run itself failed on the plain attempt: its output is not UTF-8.
PlainRaised == Len(runs) = 1 /\ fetched.kind = "UnicodeDecodeError"

\* C19: the first command run is plain cat, unchecked; sudo cat is run at
\* most once, and exactly when plain cat gave back a non-zero status; when sudo cat
\* exits non-zero too FileNotFoundError is raised and nothing is written;
\* the local file is written only by fetch, only after an attempt exited
\* with 0, and with that attempt's stdout, which is also what fetch_binary
\* and fetch_text return.
C19_CatThenSudoOnce ==
    /\ Len(runs) <= 2
    /\ Len(runs) >= 1 => runs[1].cmd = <<"cat", RemotePath>> /\ ~runs[1].check
    /\ Len(runs) = 2 =>
           /\ runs[2].cmd = <<"sudo", "cat", RemotePath>>
           /\ runs[2].check
           /\ runs[1].returncode # 0
    /\ FetchEnded /\ runs[1].returncode # 0 /\ ~PlainRaised => Len(runs) = 2
    /\ FetchEnded /\ Len(runs) = 2 /\ runs[2].returncode # 0 =>
           fetched.kind = "FileNotFoundError" /\ local_file = Unwritten
    /\ pc = "raised" => local_file = Unwritten
    /\ local_file # Unwritten =>
           /\ fetcher = "fetch"
           /\ pc = "returned"
           /\ LastRun.returncode = 0
           /\ local_file = Bytes(LastRun.stdout)
    /\ pc = "returned" =>
           /\ LastRun.returncode = 0
           /\ fetcher = "fetch" => local_file = Bytes(LastRun.stdout)
           /\ fetcher = "fetch_binary" => fetched.value = Bytes(LastRun.stdout)
           /\ fetcher = "fetch_text" => fetched.value = Str(Decode(LastRun.stdout))

\* fetch wrote the output of sudo cat after plain cat, which printed
\* something else, exited non-zero.
C19_Witness ==
    /\ pc = "returned"
    /\ fetcher = "fetch"
    /\ Len(runs) = 2
    /\ runs[1].stdout # <<>>
    /\ runs[2].stdout # runs[1].stdout
    /\ local_file = Bytes(runs[2].stdout)

(***************************************************************************)
(* Properties of SSH.wait_for_system_ready.                                *)
(***************************************************************************)
Ready == {<<"running">>, <<"degraded">>}

\* C20: what is returned is "running" or "degraded", from the first poll
\* that printed it; otherwise, unless a poll itself fails, exactly
\* `attempts` polls are issued, for every attempts >= 0, and
\* SystemReadyTimeout is raised with the last status polled; and the
\* polling starts whether or not the two --wait commands failed.
C20_ReadyOrTimeout ==
    /\ pc = "returned" =>
           /\ waited.kind = "returned"
           /\ waited.status \in Ready
           /\ waited.status = seen[Len(seen)]
           /\ \A i \in 1..(Len(seen) - 1) : seen[i] \notin Ready
    /\ pc = "raised" /\ waited.kind # "RunError" =>
           /\ waited.kind = "SystemReadyTimeout"
           /\ polls = wait_attempts
           /\ Len(seen) = wait_attempts
           /\ Len(seen) > 0 => waited.status = seen[Len(seen)]
    /\ pc \in {"returned", "raised"} /\ wait_attempts > 0 => polls >= 1

(***************************************************************************)
(* The image self-test harness, selftest/test_images.py.  A command run    *)
(* through _subprocess_run is one step: the process exits with some status *)
(* and some stderr.  Text is a sequence of words.                          *)
(***************************************************************************)
\* lpt is not running: its variables keep their idle values.
LptIdle ==
    /\ argv \in {a \in CollectArgv : a.ssh_host = None /\ a.ssh_proxy_host = None}
    /\ args = ParseArgs(argv)
    /\ cloudinits = <<>>
    /\ journals = <<>>
    /\ sysevents = <<>>
    /\ exc = None
    /\ report = <<>>
    /\ GraphIdle
    /\ SshIdle
    /\ RunIdle
    /\ fetcher = None
    /\ FetchFresh
    /\ wait_attempts = 0
    /\ WaitFresh
    /\ Dispatched(None)

lptvars == <<argv, args, cloudinits, gvars, avars, ssh, client, proxy_client,
             transport, proxy_sock, timeout, retval, attempts, ran, kvars, rvars,
             fvars, wvars>>

\* What a failing az command may leave on stderr.
AzStderrChoices ==
    {<<>>, <<"ERROR:", "Conflict", "on", "resource">>, <<"OperationNotAllowed">>}

AzStatuses == {0, 1}

\* "Conflict" in proc.stderr
Contains(text, word) == \E i \in DOMAIN text : text[i] = word

\* One entry of the history: a command or step, with the boot it was issued
\* for and how it ended.
Issued(op, rc, out, err) ==
    [op |-> op, test |-> test.number, alloc |-> test.alloc, boot |-> test.boot,
     returncode |-> rc, stdout |-> out, stderr |-> err]

\* SELFTEST_REALLOCATES and SELFTEST_REBOOTS, scaled down from their default
\* of 5.
MaxReallocates == 1

MaxReboots == 1

\* _start_vm, line 935: retries_remaining = 5.
StartRetries == 5

\* _start_vm, line 964: time.sleep(5).
StartSleep == 5

\* A loop that retries whatever the failure was.
RetryDue_AnyFailure(err, retries_remaining) == retries_remaining > 0

\* _start_vm, line 958: if "Conflict" in proc.stderr and retries_remaining > 0.
RetryDue(err, retries_remaining) ==
    Contains(err, "Conflict") /\ retries_remaining > 0

\* Where a call of _start_vm goes back to.
StartVmReturn == IF locals.caller = None THEN "returned" ELSE locals.caller

\* _start_vm is called: line 935.
StartVmEnter ==
    /\ pc = "_start_vm"
    /\ locals' = [locals EXCEPT !.retries_remaining = StartRetries]
    /\ pc' = "az_vm_start"
    /\ UNCHANGED <<lptvars, now, session, test, issued, validator>>

\* _start_vm, lines 936-968, one turn of the loop: az vm start is run; the
\* function returns if it succeeded, sleeps and goes round again on a
\* Conflict while retries remain, and raises RuntimeError otherwise.
StartVm ==
    /\ pc = "az_vm_start"
    /\ \E rc \in AzStatuses, err \in AzStderrChoices :
           /\ issued' = Append(issued, Issued("az_vm_start", rc, <<>>, err))
           /\ IF rc = 0
              THEN /\ pc' = StartVmReturn
                   /\ UNCHANGED <<locals, now, exc>>
              ELSE IF RetryDue(err, locals.retries_remaining)
              THEN /\ now' = now + StartSleep
                   /\ locals' = [locals EXCEPT
                                     !.retries_remaining = locals.retries_remaining - 1]
                   /\ pc' = "az_vm_start"
                   /\ exc' = exc
              ELSE /\ exc' = "RuntimeError"
                   /\ pc' = "raised"
                   /\ UNCHANGED <<locals, now>>
    /\ UNCHANGED <<argv, args, cloudinits, gvars, journals, sysevents, report, ssh,
                   client, proxy_client, transport, proxy_sock, timeout, retval,
                   attempts, ran, kvars, rvars, fvars, wvars, session, test,
                   validator>>

\* _start_vm called on its own, as run_test does after a deallocation.
InitStart ==
    /\ pc = "_start_vm"
    /\ LptIdle
    /\ session = SessionStart
    /\ \E a \in 0..MaxReallocates, b \in 0..MaxReboots :
           test = [NoTest EXCEPT !.number = 1, !.reallocates = MaxReallocates,
                                 !.reboots = MaxReboots, !.alloc = a, !.boot = b]
    /\ issued = <<>>
    /\ locals = NoLocals
    /\ validator = NoValidator

NextStart == StartVmEnter \/ StartVm

StartSpec == InitStart /\ [][NextStart]_vars

(***************************************************************************)
(* Properties of TestVMs._start_vm.                                        *)
(***************************************************************************)
ConflictFailure(e) == e.returncode # 0 /\ Contains(e.stderr, "Conflict")

\* C24: _start_vm returns with the first az vm start that succeeds; every
\* invocation before the last one failed with a stderr that contains
\* "Conflict"; there are never more than 6 invocations; and RuntimeError is
\* raised exactly on a failure that is not a Conflict, or that is a Conflict
\* when 5 retries were already made.
C24_StartRetriesOnConflict ==
    /\ Len(issued) <= StartRetries + 1
    /\ \A i \in 1..(Len(issued) - 1) : ConflictFailure(issued[i])
    /\ pc = "az_vm_start" /\ issued # <<>> =>
           /\ ConflictFailure(issued[Len(issued)])
           /\ Len(issued) <= StartRetries
           /\ locals.retries_remaining = StartRetries - Len(issued)
    /\ pc = "returned" => issued[Len(issued)].returncode = 0 /\ exc = None
    /\ pc = "raised" =>
           /\ exc = "RuntimeError"
           /\ issued[Len(issued)].returncode # 0
           /\ \/ ~Contains(issued[Len(issued)].stderr, "Conflict")
              \/ Len(issued) = StartRetries + 1

\* Six invocations that all failed with Conflict: the retries are used up.
C24_Witness ==
    /\ pc = "raised"
    /\ Len(issued) = 6
    /\ \A i \in 1..6 : ConflictFailure(issued[i])

(***************************************************************************)
(* TestVMs._wait_for_vm.  Time is counted in seconds; a command may take   *)
(* time, and the deadline is looked at only at the head of the loop.       *)
(***************************************************************************)
\* _wait_for_vm, line 992: the deadline, scaled down from 30 minutes.
WaitDeadline == 3

\* _wait_for_vm, line 1025: time.sleep(2).
WaitSleep == 2

\* How long the ssh command may block, in seconds.
SshSeconds == {0, 3}

\* What az vm get-instance-view prints.
PowerStates == {<<"VM running", "\n">>, <<"VM deallocated", "\n">>}

\* What systemctl is-system-running --wait prints through ssh; nothing when
\* ssh could not connect.
SystemStates ==
    {<<"running", "\n">>, <<"degraded", "\n">>, <<"starting", "\n">>, <<>>}

\* A wait that takes any status but an empty one as ready.
VmReady_AnyStatus(vm_status) == vm_status # <<"failed to ssh">>

\* _wait_for_vm, line 1011: if status in ("running", "degraded").
VmReady(vm_status) == vm_status \in {<<"running">>, <<"degraded">>}

\* _wait_for_vm, lines 1006-1008: the stripped output, or "failed to ssh".
VmStatus(out) == IF Strip(out) = <<>> THEN <<"failed to ssh">> ELSE Strip(out)

waitframe == <<argv, args, cloudinits, gvars, journals, sysevents, report, ssh,
               client, proxy_client, transport, proxy_sock, timeout, retval,
               attempts, ran, kvars, rvars, fvars, wvars, session, test,
               validator>>

\* Line 992: the deadline is fixed when the function is entered.
WaitVmEnter ==
    /\ pc = "_wait_for_vm"
    /\ locals' = [locals EXCEPT !.deadline = now + WaitDeadline]
    /\ pc' = "while_deadline"
    /\ UNCHANGED <<waitframe, now, exc, issued>>

\* Lines 993 and 1027-1029: the loop goes on while the deadline has not
\* passed; after it RuntimeError is raised.
WaitVmWhile ==
    /\ pc = "while_deadline"
    /\ IF now < locals.deadline
       THEN /\ pc' = "_is_vm_running"
            /\ UNCHANGED <<exc, locals>>
       ELSE /\ exc' = "RuntimeError"
            /\ locals' = [locals EXCEPT !.last_error = "did not become ready"]
            /\ pc' = "raised"
    /\ UNCHANGED <<waitframe, now, issued>>

\* Lines 995-997 with _is_vm_running and _get_vm_powerstate: the power state
\* is asked for; RuntimeError if that fails; _start_vm is called unless the
\* state is "VM running".
WaitVmPowerState ==
    /\ pc = "_is_vm_running"
    /\ \E rc \in AzStatuses, out \in PowerStates :
           /\ issued' = Append(issued, Issued("az_vm_get_power_state", rc, out, <<>>))
           /\ IF rc # 0
              THEN /\ exc' = "RuntimeError"
                   /\ locals' = [locals EXCEPT
                                     !.last_error = "failed to get VM power state"]
                   /\ pc' = "raised"
              ELSE IF Strip(out) = <<"VM running">>
              THEN /\ pc' = "_fetch_boot_diagnostics"
                   /\ UNCHANGED <<exc, locals>>
              ELSE /\ pc' = "_start_vm"
                   /\ locals' = [locals EXCEPT !.caller = "_fetch_boot_diagnostics"]
                   /\ exc' = exc
    /\ UNCHANGED <<waitframe, now>>

\* Line 1000, _fetch_boot_diagnostics: the boot log is asked for until it is
\* there; no failure leaves the function.
WaitVmBootDiagnostics ==
    /\ pc = "_fetch_boot_diagnostics"
    /\ \E rc \in AzStatuses :
           issued' = Append(issued, Issued("console", rc, <<>>, <<>>))
    /\ pc' = "systemctl"
    /\ UNCHANGED <<waitframe, now, exc, locals>>

\* Lines 1002-1025: systemctl is-system-running --wait is run through ssh;
\* with a ready status the cloud-init wait is next, else the loop sleeps and
\* goes round again.
WaitVmStatus ==
    /\ pc = "systemctl"
    /\ \E out \in SystemStates, took \in SshSeconds :
           /\ issued' = Append(issued, Issued("systemctl-status", 0, out, <<>>))
           /\ locals' = [locals EXCEPT !.status = VmStatus(out)]
           /\ IF VmReady(locals'.status)
              THEN now' = now + took /\ pc' = "cloud-init"
              ELSE now' = now + took + WaitSleep /\ pc' = "while_deadline"
    /\ UNCHANGED <<waitframe, exc>>

\* Lines 1013-1017: cloud-init status --wait, then return.
WaitVmCloudInit ==
    /\ pc = "cloud-init"
    /\ \E rc \in AzStatuses :
           issued' = Append(issued, Issued("cloud-init-status", rc, <<>>, <<>>))
    /\ pc' = "returned"
    /\ UNCHANGED <<waitframe, now, exc, locals>>

InitWaitVm ==
    /\ pc = "_wait_for_vm"
    /\ LptIdle
    /\ session = SessionStart
    /\ test = [NoTest EXCEPT !.number = 1]
    /\ issued = <<>>
    /\ locals = NoLocals
    /\ validator = NoValidator

NextWaitVm ==
    \/ WaitVmEnter
    \/ WaitVmWhile
    \/ WaitVmPowerState
    \/ StartVmEnter
    \/ StartVm
    \/ WaitVmBootDiagnostics
    \/ WaitVmStatus
    \/ WaitVmCloudInit

WaitVmSpec == InitWaitVm /\ [][NextWaitVm]_vars

\* _wait_for_vm is sequential code: it keeps taking its next step.
WaitVmFair == WaitVmSpec /\ WF_vars(NextWaitVm)

(***************************************************************************)
(* Properties of TestVMs._wait_for_vm.                                     *)
(***************************************************************************)
\* The positions of the history at which a turn of the loop starts.
Turns == {i \in DOMAIN issued : issued[i].op = "az_vm_get_power_state"}

\* The entries of the turn that starts at i.
TurnOf(i) ==
    {j \in DOMAIN issued : j > i /\ \A k \in Turns : k > i => j < k}

StatusAt(j) == VmStatus(issued[j].stdout)

WaitVmEnded == pc \in {"returned", "raised"}

TestNames == <<"test_arm64", "test_gen1_x64">>

\* pytest's exit statuses.
ExitStatusChoices == 0..5

\* A gate that always lets the resources be deleted.
IsCleanupPermitted_Always(s, hold_failures) == TRUE

\* is_cleanup_permitted, lines 256-270.
IsCleanupPermitted(s, hold_failures) == ~(hold_failures /\ s.failed)

\* A setup that leaves the flag as the test before left it.
ResetFailed_Keep(s) == s

\* TestVMs.setup, line 642: request.session.failed = False.
ResetFailed(s) == [s EXCEPT !.failed = FALSE]

\* A loop that reboots after every run.
RebootDue_Always(boot, reboots) == TRUE

\* run_test, line 1049: if self.boot < self.reboots.
RebootDue(boot, reboots) == boot < reboots

\* conftest.py, pytest_sessionfinish, lines 28-33.
PytestSessionfinish(s, exitstatus) ==
    IF exitstatus = 2 THEN [s EXCEPT !.aborted = TRUE, !.exitstatus = exitstatus]
    ELSE IF exitstatus # 0 THEN [s EXCEPT !.failed = TRUE, !.exitstatus = exitstatus]
    ELSE [s EXCEPT !.exitstatus = exitstatus]

testframe == <<argv, args, cloudinits, gvars, journals, sysevents, report, ssh,
               client, proxy_client, transport, proxy_sock, now, timeout, retval,
               attempts, ran, kvars, rvars, fvars, wvars, validator>>

\* How run_test ended, as an entry of the history.
Outcome(how) == Issued("run_test", IF how = "passed" THEN 0 ELSE 1, <<how>>, <<>>)

\* A helper of run_test that returns, or raises RuntimeError into the
\* handler of lines 1055-1065: session.failed is set and RuntimeError leaves
\* run_test.
Helper(at, op, next, raises) ==
    /\ pc = at
    /\ \E ok \in (IF raises THEN BOOLEAN ELSE {TRUE}) :
           IF ok
           THEN /\ issued' = Append(issued, Issued(op, 0, <<>>, <<>>))
                /\ pc' = next
                /\ UNCHANGED <<session, exc>>
           ELSE /\ issued' = issued \o <<Issued(op, 1, <<>>, <<>>), Outcome("failed")>>
                /\ session' = [session EXCEPT !.failed = TRUE]
                /\ exc' = "RuntimeError"
                /\ pc' = "teardown_setup"
    /\ UNCHANGED <<testframe, test, locals>>

\* pytest goes to the next test of the session.
NextTest ==
    /\ pc = "session"
    /\ test.number < Len(TestNames)
    /\ test' = [test EXCEPT !.number = test.number + 1, !.alloc = 0, !.boot = 0]
    /\ locals' = NoLocals
    /\ exc' = None
    /\ pc' = "temp_resource_group"
    /\ UNCHANGED <<testframe, session, issued>>

\* temp_resource_group, lines 284-451: the group is created, unless
\* SELFTEST_RESOURCE_GROUP names one; a failure ends the test before any
\* other fixture is set up.
TempResourceGroup ==
    /\ pc = "temp_resource_group"
    /\ \E ok \in BOOLEAN :
           IF ok
           THEN /\ issued' = Append(issued, Issued("az_group_create", 0, <<>>, <<>>))
                /\ pc' = "public_ip"
                /\ exc' = exc
           ELSE /\ issued' = issued \o <<Issued("az_group_create", 1, <<>>, <<>>),
                                         Outcome("error")>>
                /\ exc' = "RuntimeError"
                /\ pc' = "session"
    /\ UNCHANGED <<testframe, session, test, locals>>

\* public_ip, lines 481-541: the address is created; an address of an
\* unroutable network is deleted and another one created; a failure ends
\* the test with only temp_resource_group to tear down.
PublicIp ==
    /\ pc = "public_ip"
    /\ \E ok \in BOOLEAN, unroutable \in BOOLEAN :
           IF ~ok
           THEN /\ issued' = issued \o <<Issued("az_public_ip_create", 1, <<>>, <<>>),
                                         Outcome("error")>>
                /\ exc' = "RuntimeError"
                /\ pc' = "teardown_resource_group"
           ELSE IF unroutable /\ issued[Len(issued)].op # "az_public_ip_delete"
           THEN /\ issued' = issued \o <<Issued("az_public_ip_create", 0, <<>>, <<>>),
                                         Issued("az_public_ip_delete", 0, <<>>, <<>>)>>
                /\ pc' = "public_ip"
                /\ exc' = exc
           ELSE /\ issued' = Append(issued, Issued("az_public_ip_create", 0, <<>>, <<>>))
                /\ pc' = "setup"
                /\ exc' = exc
    /\ UNCHANGED <<testframe, session, test, locals>>

\* TestVMs.setup, lines 590-645: the fields are set and the failed flag of
\* the session is reset.
Setup ==
    /\ pc = "setup"
    /\ test' = [test EXCEPT !.alloc = 0, !.boot = 0]
    /\ session' = ResetFailed(session)
    /\ issued' = Append(issued, Issued("setup", 0, <<>>, <<>>))
    /\ pc' = "_create_vm"
    /\ UNCHANGED <<testframe, exc, locals>>

\* _create_vm, lines 682-771: when az vm create fails the test is skipped;
\* pytest.skip raises Skipped, which is no Exception and passes the handler
\* of run_test.
CreateVm ==
    /\ pc = "_create_vm"
    /\ \E rc \in AzStatuses :
           IF rc = 0
           THEN /\ issued' = Append(issued, Issued("az_vm_create", 0, <<>>, <<>>))
                /\ pc' = "_wait_for_vm"
                /\ exc' = exc
           ELSE /\ issued' = issued \o <<Issued("az_vm_create", rc, <<>>, <<>>),
                                         Outcome("skipped")>>
                /\ exc' = "Skipped"
                /\ pc' = "teardown_setup"
    /\ UNCHANGED <<testframe, session, test, locals>>

\* Line 1037.
FirstWaitForVm == Helper("_wait_for_vm", "_wait_for_vm", "_scp_to_vm", TRUE)

\* Lines 1038-1041.
ScpToVm == Helper("_scp_to_vm", "_scp_to_vm", "_verify_image", TRUE)

\* Line 1042: _verify_image only logs what it finds.
VerifyImage ==
    /\ Helper("_verify_image", "_verify_image", "for_alloc", FALSE)

\* Line 1044: for self.alloc in range(0, self.reallocates + 1).
ForAlloc ==
    /\ pc = "for_alloc"
    /\ IF locals.alloc_range < test.reallocates + 1
       THEN /\ test' = [test EXCEPT !.alloc = locals.alloc_range]
            /\ locals' = [locals EXCEPT !.alloc_range = locals.alloc_range + 1,
                                        !.boot_range = 0]
            /\ pc' = "for_boot"
            /\ issued' = issued
       ELSE /\ issued' = Append(issued, Outcome("passed"))
            /\ pc' = "teardown_setup"
            /\ UNCHANGED <<test, locals>>
    /\ UNCHANGED <<testframe, session, exc>>

\* Line 1045: for self.boot in range(0, self.reboots + 1); after the last
\* boot, line 1051: if self.alloc < self.reallocates.
ForBoot ==
    /\ pc = "for_boot"
    /\ IF locals.boot_range < test.reboots + 1
       THEN /\ test' = [test EXCEPT !.boot = locals.boot_range]
            /\ locals' = [locals EXCEPT !.boot_range = locals.boot_range + 1]
            /\ pc' = "wait"
       ELSE /\ pc' = IF test.alloc < test.reallocates THEN "_deallocate_vm"
                     ELSE "for_alloc"
            /\ UNCHANGED <<test, locals>>
    /\ UNCHANGED <<testframe, session, exc, issued>>

\* Line 1046.
WaitForVm == Helper("wait", "_wait_for_vm", "_fetch_boot_diagnostics", TRUE)

\* Line 1047: _fetch_boot_diagnostics gives up silently.
FetchBootDiagnostics ==
    /\ Helper("_fetch_boot_diagnostics", "_fetch_boot_diagnostics", "_fetch_logs", FALSE)

\* Line 1048.
FetchLogs == Helper("_fetch_logs", "_fetch_logs", "_run_selftest_script", TRUE)

\* Lines 1049-1050: the self-test script, then the reboot if one is due.
RunSelftestScript ==
    Helper("_run_selftest_script", "_run_selftest_script",
           IF RebootDue(test.boot, test.reboots) THEN "_reboot_vm" ELSE "for_boot",
           TRUE)

\* _reboot_vm, lines 970-974: reboot, then _wait_for_vm.
RebootVm == Helper("_reboot_vm", "_reboot_vm", "for_boot", TRUE)

\* Line 1052.
DeallocateVm == Helper("_deallocate_vm", "_deallocate_vm", "_start_vm", TRUE)

\* Line 1053.
StartVmAgain == Helper("_start_vm", "_start_vm", "for_alloc", TRUE)

\* TestVMs.setup, lines 644-654, after the test: _cleanup deletes the VM if
\* cleanup is permitted.
TeardownSetup ==
    /\ pc = "teardown_setup"
    /\ IF IsCleanupPermitted(session, test.hold_failures)
       THEN issued' = Append(issued, Issued("az_vm_delete", 0, <<>>, <<>>))
       ELSE issued' = issued
    /\ pc' = "teardown_public_ip"
    /\ UNCHANGED <<testframe, session, test, locals, exc>>

\* public_ip, lines 545-558, after the test.
TeardownPublicIp ==
    /\ pc = "teardown_public_ip"
    /\ IF IsCleanupPermitted(session, test.hold_failures)
       THEN issued' = Append(issued, Issued("az_public_ip_delete", 0, <<>>, <<>>))
       ELSE issued' = issued
    /\ pc' = "teardown_resource_group"
    /\ UNCHANGED <<testframe, session, test, locals, exc>>

\* temp_resource_group, lines 453-467, after the test.
TeardownResourceGroup ==
    /\ pc = "teardown_resource_group"
    /\ IF ~test.env_rg /\ IsCleanupPermitted(session, test.hold_failures)
       THEN issued' = Append(issued, Issued("az_group_delete", 0, <<>>, <<>>))
       ELSE issued' = issued
    /\ pc' = "session"
    /\ UNCHANGED <<testframe, session, test, locals, exc>>

\* pytest_sessionfinish: the session ends, after its last test or before.
SessionFinish ==
    /\ pc = "session"
    /\ \E exitstatus \in ExitStatusChoices :
           session' = PytestSessionfinish(session, exitstatus)
    /\ pc' = "finished"
    /\ UNCHANGED <<testframe, test, locals, exc, issued>>

\* pytest_sessionstart has run; the environment fixes the four settings.
InitTest ==
    /\ pc = "session"
    /\ LptIdle
    /\ session = SessionStart
    /\ \E r \in 0..MaxReallocates, b \in 0..MaxReboots, h \in BOOLEAN, e \in BOOLEAN :
           test = [NoTest EXCEPT !.reallocates = r, !.reboots = b,
                                 !.hold_failures = h, !.env_rg = e]
    /\ issued = <<>>
    /\ locals = NoLocals
    /\ validator = NoValidator

NextTestSession ==
    \/ NextTest
    \/ TempResourceGroup
    \/ PublicIp
    \/ Setup
    \/ CreateVm
    \/ FirstWaitForVm
    \/ ScpToVm
    \/ VerifyImage
    \/ ForAlloc
    \/ ForBoot
    \/ WaitForVm
    \/ FetchBootDiagnostics
    \/ FetchLogs
    \/ RunSelftestScript
    \/ RebootVm
    \/ DeallocateVm
    \/ StartVmAgain
    \/ TeardownSetup
    \/ TeardownPublicIp
    \/ TeardownResourceGroup
    \/ SessionFinish

TestSpec == InitTest /\ [][NextTestSession]_vars

(***************************************************************************)
(* Properties of TestVMs.run_test and of the fixtures around it.           *)
(***************************************************************************)
\* The entries of the history that belong to test n, in order.
Of(n) == SelectSeq(issued, LAMBDA e : e.test = n)

PositionOf(h, op) == CHOOSE i \in DOMAIN h : h[i].op = op

Has(h, op) == \E i \in DOMAIN h : h[i].op = op

\* How the run_test of the history h of one test ended, once it has.
Ended(h, how) ==
    \E i \in DOMAIN h : h[i].op = "run_test" /\ h[i].stdout = <<how>>

\* The fixtures of test n are torn down.
TornDown(n) ==
    /\ n \in 1..test.number
    /\ test.number = n => pc \in {"session", "finished"}

\* What run_test did inside its two loops: the steps between _verify_image
\* and the end of run_test, each with its alloc and boot.
LoopSteps(h) ==
    LET inner == SubSeq(h, PositionOf(h, "_verify_image") + 1,
                        PositionOf(h, "run_test") - 1)
    IN  [i \in DOMAIN inner |-> <<inner[i].op, inner[i].alloc, inner[i].boot>>]

RECURSIVE BootsFrom(_, _, _)
BootsFrom(a, b, B) ==
    IF b > B THEN <<>>
    ELSE <<<<"_wait_for_vm", a, b>>, <<"_fetch_boot_diagnostics", a, b>>,
           <<"_fetch_logs", a, b>>, <<"_run_selftest_script", a, b>>>>
         \o (IF b < B THEN <<<<"_reboot_vm", a, b>>>> ELSE <<>>)
         \o BootsFrom(a, b + 1, B)

RECURSIVE AllocsFrom(_, _, _)
AllocsFrom(a, R, B) ==
    IF a > R THEN <<>>
    ELSE BootsFrom(a, 0, B)
         \o (IF a < R THEN <<<<"_deallocate_vm", a, B>>, <<"_start_vm", a, B>>>>
             ELSE <<>>)
         \o AllocsFrom(a + 1, R, B)

\* C21: when run_test ends with no failure, what it did in its loops is, for
\* each alloc 0..R in turn and each boot 0..B in turn, the wait for the VM,
\* the boot-diagnostics fetch, the log fetch and the self-test script, with
\* a reboot after the script except on boot B and a deallocation followed
\* by a start after the boots of every alloc except alloc R: the script
\* runs (R+1)*(B+1) times.
C21_RunsPerAllocAndBoot ==
    \A n \in 1..test.number :
        LET h == Of(n)
            steps == LoopSteps(h)
        IN  Ended(h, "passed") =>
                /\ steps = AllocsFrom(0, test.reallocates, test.reboots)
                /\ Cardinality({i \in DOMAIN steps :
                                    steps[i][1] = "_run_selftest_script"})
                       = (test.reallocates + 1) * (test.reboots + 1)

\* A test with one reallocation and one reboot that passed: four runs.
C21_Witness ==
    /\ test.reallocates = 1
    /\ test.reboots = 1
    /\ Ended(Of(1), "passed")
    /\ Len(LoopSteps(Of(1))) = 20

\* The deletions issued for a test once TestVMs.setup had run.
DeletedAfterSetup(h, op) ==
    LET setup == PositionOf(h, "setup")
    IN  \E i \in DOMAIN h : h[i].op = op /\ i > setup

NothingDeleted(h) ==
    /\ ~DeletedAfterSetup(h, "az_vm_delete")
    /\ ~DeletedAfterSetup(h, "az_public_ip_delete")
    /\ ~Has(h, "az_group_delete")

\* C22 as stated: whenever a step of run_test raises, the failed flag is set
\* when the teardown starts, and with hold_failures nothing of the test is
\* deleted; without hold_failures, or when the test passed, the VM delete is
\* issued.
C22_Original ==
    /\ pc = "teardown_setup" =>
           LET h == Of(test.number)
           IN  Ended(h, "failed") \/ Ended(h, "skipped") => session.failed
    /\ \A n \in 1..test.number :
           TornDown(n) =>
               LET h == Of(n)
               IN  Has(h, "setup") =>
                       /\ (Ended(h, "failed") \/ Ended(h, "skipped"))
                              /\ test.hold_failures
                          => NothingDeleted(h)
                       /\ ~test.hold_failures \/ Ended(h, "passed")
                          => DeletedAfterSetup(h, "az_vm_delete")

\* C22: whenever a step of run_test raises an Exception, the failed flag is
\* set when the teardown starts, and with hold_failures neither the VM nor
\* the public IP nor the resource group of the test is deleted; without
\* hold_failures, or when the test passed, the VM delete is issued.  The
\* skip that _create_vm raises when the VM cannot be created is no
\* Exception: it leaves the flag unset and the resources are deleted.
C22_HeldOnlyAfterException ==
    /\ pc = "teardown_setup" =>
           LET h == Of(test.number)
           IN  /\ Ended(h, "failed") => session.failed
               /\ Ended(h, "skipped") => ~session.failed
    /\ \A n \in 1..test.number :
           TornDown(n) =>
               LET h == Of(n)
               IN  Has(h, "setup") =>
                       /\ Ended(h, "failed") /\ test.hold_failures
                          => NothingDeleted(h)
                       /\ Ended(h, "skipped") => DeletedAfterSetup(h, "az_vm_delete")
                       /\ ~test.hold_failures \/ Ended(h, "passed")
                          => DeletedAfterSetup(h, "az_vm_delete")

\* A test that failed in its second boot with hold_failures set, torn down
\* with nothing deleted.
C22_Witness ==
    /\ test.hold_failures
    /\ ~test.env_rg
    /\ TornDown(1)
    /\ Ended(Of(1), "failed")
    /\ Has(Of(1), "_reboot_vm")
    /\ NothingDeleted(Of(1))

AllDeleted(h) ==
    /\ DeletedAfterSetup(h, "az_vm_delete")
    /\ DeletedAfterSetup(h, "az_public_ip_delete")
    /\ ~test.env_rg => Has(h, "az_group_delete")

\* C23: the failed flag is False when TestVMs.setup has run, whatever the
\* tests before did, so the resources of every test that passes are
\* deleted; and pytest_sessionfinish sets aborted and nothing else on exit
\* status 2, failed and nothing else on any other non-zero status, and
\* neither flag on status 0.
C23_FailedFlagPerTest ==
    /\ [][pc = "setup" => ~session'.failed]_vars
    /\ [](\A n \in 1..test.number :
              TornDown(n) => LET h == Of(n) IN Ended(h, "passed") => AllDeleted(h))
    /\ [](pc \in {"teardown_setup", "teardown_public_ip", "teardown_resource_group"}
          /\ Ended(Of(test.number), "passed") => ~session.failed)
    /\ [][pc' = "finished" =>
              /\ session'.aborted = (session.aborted \/ session'.exitstatus = 2)
              /\ session'.failed = (session.failed \/ session'.exitstatus \notin {0, 2})
              /\ session'.exitstatus = 0 => session' = [session EXCEPT !.exitstatus = 0]
         ]_vars

\* A first test that failed and was held, then a second test that passed
\* and whose resources were deleted.
C23_Witness ==
    /\ test.hold_failures
    /\ ~test.env_rg
    /\ TornDown(2)
    /\ Ended(Of(1), "failed")
    /\ NothingDeleted(Of(1))
    /\ Ended(Of(2), "passed")
    /\ AllDeleted(Of(2))

(***************************************************************************)
(* selftest.py: the self-test script run on the VM.  main builds an        *)
(* AzureVmUtilsValidator, whose constructor gathers the facts of the       *)
(* system and fetches the IMDS metadata, and calls its validate.           *)
(***************************************************************************)
TheOne(s) == CHOOSE x \in s : TRUE

\* dict.get(key, default), a mapping holding under each key no value or one.
Get(m, key, default) == IF m[key] = {} THEN default ELSE TheOne(m[key])

\* The empty mapping, {}, read at each depth of the metadata.
EmptyMetadata == [compute |-> {}]

EmptyCompute == [vmSize |-> {}, storageProfile |-> {}]

EmptyStorageProfile == [dataDisks |-> {}]

\* Bodies an IMDS answer may carry.
BodyEmpty == "{}"

BodyListed == "{compute: {vmSize: Standard_D2s_v4, storageProfile: {dataDisks: [lun 0]}}}"

BodyUnlisted == "{compute: {vmSize: Standard_X1, storageProfile: {dataDisks: []}}}"

BodyHtml == "<html>"

ImdsBodies == {BodyEmpty, BodyListed, BodyUnlisted, BodyHtml}

\* json.load raises JSONDecodeError on a body that is not JSON.
JsonDecodable(body) == body # BodyHtml

JsonLoad(body) ==
    CASE body = BodyListed ->
             [compute |-> {[vmSize |-> {"Standard_D2s_v4"},
                            storageProfile |->
                                {[dataDisks |-> {<<[lun |-> 0, diskSizeGB |-> 4]>>}]}]}]
      [] body = BodyUnlisted ->
             [compute |-> {[vmSize |-> {"Standard_X1"},
                            storageProfile |-> {[dataDisks |-> {<<>>}]}]}]
      [] OTHER -> EmptyMetadata

\* SKU_CONFIGS.get(vm_size): the configuration of a listed size, if any.
SkuConfigsGet(vm_size) ==
    IF vm_size \in {"Standard_B2ts_v2", "Standard_D2s_v4"}
    THEN {[vm_size |-> vm_size, nvme_local_disk_count |-> 0]}
    ELSE {}

\* What urlopen may meet: no answer at all (URLError), or an answer with a
\* status and a body.
NoAnswer == [status |-> 0, body |-> ""]

ImdsAnswers ==
    {NoAnswer}
        \cup {[status |-> 200, body |-> b] : b \in ImdsBodies}
        \cup {[status |-> 404, body |-> BodyListed]}

\* Seconds a request may take (its timeout is 60 seconds).
ImdsSeconds == {0, 2}

\* The deadline of get_imds_metadata, 300 seconds, scaled down.
ImdsDeadline == 3

ImdsSleep == 1

ImdsOk_Any(code) == code # 0

\* Lines 277-285: urlopen raises HTTPError for an error status and the
\* function raises it for every other status that is not 200.
ImdsOk(code) == code = 200

ImdsLocals ==
    [deadline |-> 0, last_error |-> 0, raised |-> None, returned |-> {},
     message |-> 0]

\* One request of the history: when it was made, when it ended, its answer.
Requested(at, ended, answer) ==
    [op |-> "urlopen", at |-> at, ended |-> ended, status |-> answer.status,
     body |-> answer.body]

\* The facts ServiceInfo, AzureEphemeralDiskConfig, DiskInfo and MountInfo
\* gather that validate_ephemeral_mount reads.
FstabEphemeral ==
    [options |-> <<"defaults", "nofail", "comment=azure-ephemeral-disk-setup">>,
     source |-> "LABEL=AzureEphmDsk"]

FstabCloudConfig ==
    [options |-> <<"defaults", "nofail", "comment=cloudconfig">>,
     source |-> "/dev/disk/cloud/azure_resource-part1"]

FstabOther == [options |-> <<"defaults">>, source |-> "/dev/sdb1"]

FstabBare == [options |-> <<>>, source |-> ""]

FstabChoices == {{}, {FstabEphemeral}, {FstabCloudConfig}, {FstabOther}, {FstabBare}}

KernelRw == [options |-> <<"rw", "relatime">>, source |-> "/dev/sdb1"]

KernelRo == [options |-> <<"ro">>, source |-> "/dev/sdb1"]

KernelChoices == {{}, {KernelRw}, {KernelRo}}

MountFacts ==
    [ephemeral_service_enabled : BOOLEAN,
     ephemeral_service_active : BOOLEAN,
     ephemeral_service_failed : BOOLEAN,
     cloud_init_service_enabled : BOOLEAN,
     waagent_resource_disk_format : {{}, {TRUE}, {FALSE}},
     scsi_resource : BOOLEAN,
     dev_disk_cloud_azure_resource : BOOLEAN,
     scsi_resource_disk : BOOLEAN,
     nvme_local_disks : BOOLEAN,
     mnt_fstab : FstabChoices,
     mnt_kernel : KernelChoices]

\* A VM whose resource disk cloud-init mounted, with the service in each of
\* its states.
MountSample ==
    {f \in MountFacts :
        /\ f.cloud_init_service_enabled
        /\ f.waagent_resource_disk_format = {}
        /\ f.scsi_resource
        /\ f.dev_disk_cloud_azure_resource
        /\ f.scsi_resource_disk
        /\ ~f.nvme_local_disks
        /\ f.mnt_fstab = {FstabCloudConfig}
        /\ f.mnt_kernel = {KernelRw}
        /\ f.ephemeral_service_active = ~f.ephemeral_service_failed}

\* The by-lun links and NVMe remote disks DiskInfo found.
DiskFacts ==
    {d \in [by_lun : 0..1, nvme_remote_disks : 0..1, nvme_remote_data_disks : 0..1] :
        d.nvme_remote_data_disks <= d.nvme_remote_disks}

ExpectedToFail_Never(f) == FALSE

\* Lines 782-785: the service is expected to fail when it is configured to
\* manage the SCSI resource disk that cloud-init or WALA manages too.
ExpectedToFail(f) ==
    f.scsi_resource
        /\ (f.dev_disk_cloud_azure_resource \/ TRUE \in f.waagent_resource_disk_format)

\* Lines 797-809.
MountExpected(f) ==
    \/ f.scsi_resource_disk /\ f.dev_disk_cloud_azure_resource
           /\ f.cloud_init_service_enabled
    \/ f.scsi_resource_disk /\ f.scsi_resource /\ f.ephemeral_service_active
    \/ f.nvme_local_disks /\ f.ephemeral_service_active

\* A mount is there with options and a source.
Mounted(m) == m # {} /\ TheOne(m).options # <<>> /\ TheOne(m).source # ""

\* MountInfo.validate_ephemeral_mount: the assertion that fails first, or ""
\* when none does.
ValidateEphemeralMount(f) ==
    IF f.ephemeral_service_enabled /\ ExpectedToFail(f) /\ ~f.ephemeral_service_failed
    THEN "service did not fail as expected"
    ELSE IF f.ephemeral_service_enabled /\ ~ExpectedToFail(f)
                /\ ~f.ephemeral_service_active
    THEN "service is enabled but not active"
    ELSE IF f.ephemeral_service_enabled /\ ~ExpectedToFail(f)
                /\ f.ephemeral_service_failed
    THEN "service is enabled but failed"
    ELSE IF MountExpected(f)
    THEN IF ~Mounted(f.mnt_fstab) THEN "no fstab mount found for /mnt"
         ELSE IF ~Mounted(f.mnt_kernel) THEN "no kernel mount found for /mnt"
         ELSE IF f.dev_disk_cloud_azure_resource /\ f.cloud_init_service_enabled
                     /\ ~Contains(TheOne(f.mnt_fstab).options, "comment=cloudconfig")
         THEN "expected comment=cloudconfig in fstab options for /mnt"
         ELSE IF ~(f.dev_disk_cloud_azure_resource /\ f.cloud_init_service_enabled)
                     /\ TheOne(f.mnt_fstab).options # FstabEphemeral.options
         THEN "unexpected fstab options for /mnt"
         ELSE IF ~(f.dev_disk_cloud_azure_resource /\ f.cloud_init_service_enabled)
                     /\ TheOne(f.mnt_fstab).source # FstabEphemeral.source
         THEN "unexpected fstab source for /mnt"
         ELSE IF ~Contains(TheOne(f.mnt_kernel).options, "rw")
         THEN "missing rw in fstab options"
         ELSE ""
    ELSE IF f.mnt_fstab # {}
                /\ ~Contains(TheOne(f.mnt_fstab).options, "comment=cloudconfig")
    THEN "unexpected fstab mount for /mnt"
    ELSE IF f.mnt_kernel # {} THEN "unexpected kernel mount for /mnt"
    ELSE ""

\* The validator object: its flags, what its constructor gathered and
\* fetched, and the validations run so far with how each ended.
Validator(skip_imds, skip_udev, disks, mount) ==
    [made |-> FALSE, skip_imds_validation |-> skip_imds,
     skip_udev_validation |-> skip_udev, disk_info |-> disks, mount_info |-> mount,
     fetch |-> None, imds_metadata |-> EmptyMetadata, vm_size |-> None,
     sku_config |-> {}, validations |-> <<>>, success |-> FALSE]

Validated(name, how, message) ==
    [name |-> name, outcome |-> how, message |-> message]

selfframe == <<argv, args, cloudinits, gvars, journals, sysevents, report, ssh,
               client, proxy_client, transport, proxy_sock, timeout, retval,
               attempts, ran, kvars, rvars, fvars, wvars, session, test>>

\* Lines 1397-1404: the constructor keeps the flags and gathers the facts.
Gather ==
    /\ pc = "main"
    /\ \E d \in DiskFacts, f \in MountSample :
           validator' = Validator(validator.skip_imds_validation,
                                  validator.skip_udev_validation, d, f)
    /\ pc' = "get_imds_metadata"
    /\ UNCHANGED <<selfframe, now, exc, issued, locals>>

\* Lines 273-274: the deadline is fixed before the first request.
ImdsEnter ==
    /\ pc = "get_imds_metadata"
    /\ locals' = [ImdsLocals EXCEPT !.deadline = now + ImdsDeadline]
    /\ pc' = "imds_while"
    /\ UNCHANGED <<selfframe, now, exc, issued, validator>>

\* Lines 275 and 298: another request while the deadline has not passed,
\* RuntimeError with the last error after it.
ImdsWhile ==
    /\ pc = "imds_while"
    /\ IF now < locals.deadline
       THEN /\ pc' = "urlopen"
            /\ UNCHANGED locals
       ELSE /\ locals' = [locals EXCEPT !.raised = "RuntimeError",
                                        !.message = locals.last_error]
            /\ pc' = "imds_done"
    /\ UNCHANGED <<selfframe, now, exc, issued, validator>>

\* Lines 276-296: one request.  A 200 answer is decoded and returned (or
\* JSONDecodeError leaves the function); any other outcome is a URLError,
\* kept as the last error and followed by a pause of one second.
ImdsRequest ==
    /\ pc = "urlopen"
    /\ \E answer \in ImdsAnswers, d \in ImdsSeconds :
           /\ issued' = Append(issued, Requested(now, now + d, answer))
           /\ IF ImdsOk(answer.status)
              THEN /\ now' = now + d
                   /\ pc' = "imds_done"
                   /\ locals' = IF JsonDecodable(answer.body)
                                THEN [locals EXCEPT
                                          !.returned = {JsonLoad(answer.body)}]
                                ELSE [locals EXCEPT !.raised = "JSONDecodeError"]
              ELSE /\ now' = now + d + ImdsSleep
                   /\ pc' = "imds_while"
                   /\ locals' = [locals EXCEPT !.last_error = Len(issued) + 1]
    /\ UNCHANGED <<selfframe, exc, validator>>

\* Lines 1406-1415: what the constructor keeps of a fetch that raised
\* (with skip_imds_validation) or returned.
Constructed(v, fetch) ==
    LET metadata == IF fetch.raised # None THEN EmptyMetadata
                    ELSE TheOne(fetch.returned)
        vm_size == Get(Get(metadata, "compute", EmptyCompute), "vmSize", None)
    IN  [v EXCEPT !.made = TRUE,
                  !.fetch = IF fetch.raised # None THEN fetch.raised ELSE "returned",
                  !.imds_metadata = metadata,
                  !.vm_size = vm_size,
                  !.sku_config = SkuConfigsGet(vm_size)]

\* Lines 1406-1417: an exception of the fetch is raised again unless
\* skip_imds_validation is set, and then the metadata is {}; vm_size and
\* sku_config are read from the metadata.
ValidatorInit ==
    /\ pc = "imds_done"
    /\ IF locals.raised # None /\ ~validator.skip_imds_validation
       THEN /\ exc' = locals.raised
            /\ validator' = [validator EXCEPT !.fetch = locals.raised]
            /\ pc' = "raised"
       ELSE /\ validator' = Constructed(validator, locals)
            /\ exc' = exc
            /\ pc' = "azure_nvme_id_info.validate"
    /\ UNCHANGED <<selfframe, now, issued, locals>>

\* One validation of validate: it ends well and the next one follows, or
\* its first failing assertion leaves validate and main.
Ends(name, message, next) ==
    /\ validator' =
           [validator EXCEPT
               !.validations =
                   Append(@, Validated(name, IF message = "" THEN "OK"
                                             ELSE "AssertionError", message)),
               !.success = message = "" /\ next = "done"]
    /\ IF message = ""
       THEN pc' = next /\ exc' = exc
       ELSE pc' = "raised" /\ exc' = "AssertionError"
    /\ UNCHANGED <<selfframe, now, issued, locals>>

\* A validation whose assertions are about facts not kept here: they hold
\* or one of them fails.
Validation(name, next) ==
    /\ pc = name
    /\ \E message \in {"", "assertion failed"} : Ends(name, message, next)

SkipUdev_Never(v) == FALSE

\* Line 1640.
SkipUdev(v) == v.skip_udev_validation

\* Line 1638, and the branch of line 1640 behind it.
AzureNvmeIdInfoValidate ==
    Validation("azure_nvme_id_info.validate",
               IF SkipUdev(validator) THEN "validate_sku_config"
               ELSE "validate_dev_disk_azure_links_data")

SoftError_Never(expected_data_disks, data_disks) == FALSE

\* Line 1441: links found although IMDS reports no data disk.
SoftError(expected_data_disks, data_disks) ==
    expected_data_disks = 0 /\ data_disks > 0

ImdsDataDisks(v) ==
    Get(Get(Get(v.imds_metadata, "compute", EmptyCompute),
            "storageProfile", EmptyStorageProfile),
        "dataDisks", <<>>)

\* validate_dev_disk_azure_links_data: the assertion that fails first, the
\* soft error logged, or "".  sizes_match: get_disk_size_gib gives the size
\* IMDS reports for every data disk.
LinksData(v, sizes_match) ==
    LET expected_data_disks == Len(ImdsDataDisks(v))
        data_disks == v.disk_info.by_lun
    IN  IF v.disk_info.nvme_remote_disks > 0
               /\ data_disks # v.disk_info.nvme_remote_data_disks
        THEN [outcome |-> "AssertionError",
              message |-> "unexpected number of data disks: configured"]
        ELSE IF ~SoftError(expected_data_disks, data_disks)
                    /\ data_disks # expected_data_disks
        THEN [outcome |-> "AssertionError",
              message |-> "unexpected number of data disks: IMDS configured"]
        ELSE IF expected_data_disks > 0 /\ ~sizes_match
        THEN [outcome |-> "AssertionError", message |-> "disk size mismatch"]
        ELSE IF SoftError(expected_data_disks, data_disks)
        THEN [outcome |-> "OK", message |-> "IMDS reports no data disks"]
        ELSE [outcome |-> "OK", message |-> ""]

ValidateDevDiskAzureLinksData ==
    /\ pc = "validate_dev_disk_azure_links_data"
    /\ \E sizes_match \in BOOLEAN :
           LET ended == LinksData(validator, sizes_match)
           IN  /\ validator' =
                      [validator EXCEPT
                          !.validations =
                              Append(@, Validated("validate_dev_disk_azure_links_data",
                                                  ended.outcome, ended.message))]
               /\ IF ended.outcome = "OK"
                  THEN pc' = "validate_dev_disk_azure_links_local" /\ exc' = exc
                  ELSE pc' = "raised" /\ exc' = "AssertionError"
    /\ UNCHANGED <<selfframe, now, issued, locals>>

ValidateDevDiskAzureLinksLocal ==
    Validation("validate_dev_disk_azure_links_local", "validate_dev_disk_azure_links_os")

ValidateDevDiskAzureLinksOs ==
    Validation("validate_dev_disk_azure_links_os",
               "validate_dev_disk_azure_links_resource")

ValidateDevDiskAzureLinksResource ==
    Validation("validate_dev_disk_azure_links_resource", "validate_mounts")

\* validate_mounts, MountInfo.validate and validate_ephemeral_mount.
ValidateMounts ==
    /\ pc = "validate_mounts"
    /\ Ends("validate_mounts", ValidateEphemeralMount(validator.mount_info),
            "validate_networking")

ValidateNetworking == Validation("validate_networking", "validate_nvme_io_timeouts")

ValidateNvmeIoTimeouts == Validation("validate_nvme_io_timeouts", "validate_services")

\* validate_services asserts nothing.
ValidateServices ==
    /\ pc = "validate_services"
    /\ Ends("validate_services", "", "validate_scsi_resource_disk")

ValidateScsiResourceDisk ==
    Validation("validate_scsi_resource_disk", "validate_sku_config")

\* validate_sku_config and line 1663: skipped with no assertion when there
\* is no configuration for the VM size; "success!" is logged after it.
ValidateSkuConfig ==
    /\ pc = "validate_sku_config"
    /\ IF validator.sku_config = {}
       THEN /\ validator' =
                   [validator EXCEPT
                       !.validations =
                           Append(@, Validated("validate_sku_config", "SKIPPED", "")),
                       !.success = TRUE]
            /\ pc' = "done"
            /\ exc' = exc
            /\ UNCHANGED <<selfframe, now, issued, locals>>
       ELSE \E message \in {"", "assertion failed"} :
                Ends("validate_sku_config", message, "done")

\* main: the two flags typed, nothing gathered yet.
InitSelftest ==
    /\ pc = "main"
    /\ LptIdle
    /\ session = SessionStart
    /\ test = NoTest
    /\ issued = <<>>
    /\ locals = ImdsLocals
    /\ \E skip_imds \in BOOLEAN, skip_udev \in BOOLEAN :
           validator = Validator(skip_imds, skip_udev,
                                 [by_lun |-> 0, nvme_remote_disks |-> 0,
                                  nvme_remote_data_disks |-> 0],
                                 CHOOSE f \in MountSample : TRUE)

NextSelftest ==
    \/ Gather
    \/ ImdsEnter
    \/ ImdsWhile
    \/ ImdsRequest
    \/ ValidatorInit
    \/ AzureNvmeIdInfoValidate
    \/ ValidateDevDiskAzureLinksData
    \/ ValidateDevDiskAzureLinksLocal
    \/ ValidateDevDiskAzureLinksOs
    \/ ValidateDevDiskAzureLinksResource
    \/ ValidateMounts
    \/ ValidateNetworking
    \/ ValidateNvmeIoTimeouts
    \/ ValidateServices
    \/ ValidateScsiResourceDisk
    \/ ValidateSkuConfig

SelftestSpec == InitSelftest /\ [][NextSelftest]_vars

\* validate_mounts on its own, on every system of MountFacts.
InitMount ==
    /\ pc = "validate_mounts"
    /\ LptIdle
    /\ session = SessionStart
    /\ test = NoTest
    /\ issued = <<>>
    /\ locals = ImdsLocals
    /\ \E f \in MountFacts :
           validator = [Validator(FALSE, FALSE,
                                  [by_lun |-> 0, nvme_remote_disks |-> 0,
                                   nvme_remote_data_disks |-> 0], f)
                            EXCEPT !.made = TRUE]

NextMount == ValidateMounts

MountSpec == InitMount /\ [][NextMount]_vars

(***************************************************************************)
(* Properties of selftest.py.                                              *)
(***************************************************************************)
UdevValidationNames ==
    <<"validate_dev_disk_azure_links_data", "validate_dev_disk_azure_links_local",
      "validate_dev_disk_azure_links_os", "validate_dev_disk_azure_links_resource",
      "validate_mounts", "validate_networking", "validate_nvme_io_timeouts",
      "validate_services", "validate_scsi_resource_disk">>

ValidationNames(skip_udev_validation) ==
    <<"azure_nvme_id_info.validate">>
        \o (IF skip_udev_validation THEN <<>> ELSE UdevValidationNames)
        \o <<"validate_sku_config">>

Failed(v) == v.outcome = "AssertionError"

\* C26: the validations validate has run are the first ones of: the
\* azure-nvme-id validation, then (unless skip_udev_validation is set) the
\* nine udev-dependent validations in their fixed order, then the SKU-config
\* validation; only the last one run may have failed, and then
\* AssertionError has left validate; success is reached exactly when all of
\* them have run and none failed.
C26_ValidationOrder ==
    LET order == ValidationNames(validator.skip_udev_validation)
        v == validator.validations
    IN  validator.made =>
            /\ Len(v) <= Len(order)
            /\ \A i \in DOMAIN v :
                   /\ v[i].name = order[i]
                   /\ i < Len(v) => ~Failed(v[i])
            /\ v # <<>> /\ Failed(v[Len(v)]) => pc = "raised" /\ exc = "AssertionError"
            /\ validator.skip_udev_validation =>
                   \A i \in DOMAIN v, j \in DOMAIN UdevValidationNames :
                       v[i].name # UdevValidationNames[j]
            /\ validator.success <=>
                   Len(v) = Len(order) /\ \A i \in DOMAIN v : ~Failed(v[i])

\* All eleven validations run, none failed.
C26_Witness ==
    /\ validator.made
    /\ ~validator.skip_udev_validation
    /\ validator.success
    /\ Len(validator.validations) = 11

FetchFailed == validator.fetch \notin {None, "returned"}

\* C27: when the fetch of the IMDS metadata raised, the constructor raises
\* the same exception and nothing is validated unless skip_imds_validation
\* is set; with it set the metadata is the empty mapping, vm_size is None
\* and there is no sku_config, validate_sku_config is skipped, and
\* validate_dev_disk_azure_links_data never fails on the number or size of
\* the disks IMDS reports: by-lun links that are present are logged as a
\* soft error.
C27_FetchFailure ==
    FetchFailed =>
        IF ~validator.skip_imds_validation
        THEN /\ pc = "raised"
             /\ exc = validator.fetch
             /\ ~validator.made
             /\ validator.validations = <<>>
        ELSE /\ validator.made
             /\ validator.imds_metadata = EmptyMetadata
             /\ validator.vm_size = None
             /\ validator.sku_config = {}
             /\ \A i \in DOMAIN validator.validations :
                    LET v == validator.validations[i]
                    IN  /\ v.name = "validate_sku_config" => v.outcome = "SKIPPED"
                        /\ v.name = "validate_dev_disk_azure_links_data" =>
                               /\ v.message \in
                                      {"", "IMDS reports no data disks",
                                       "unexpected number of data disks: configured"}
                               /\ validator.disk_info.by_lun > 0 /\ ~Failed(v)
                                      => v.message = "IMDS reports no data disks"
                               /\ validator.disk_info.by_lun = 0 /\ ~Failed(v)
                                      => v.message = ""

\* The deadline passed, skip_imds_validation is set and a by-lun link is
\* there: the soft error is logged and every validation passes.
C27_Witness ==
    /\ validator.fetch = "RuntimeError"
    /\ validator.skip_imds_validation
    /\ ~validator.skip_udev_validation
    /\ validator.disk_info.by_lun = 1
    /\ validator.success

FetchOver == locals.returned # {} \/ locals.raised # None

\* C28: every request is made before the deadline; every request but the
\* last ended in a URLError (no answer, or a status that is not 200) and
\* was followed by the next one second later; a value is returned only as
\* the decoded body of a last request that answered 200; the function ends
\* after a URLError only once the deadline has passed, with RuntimeError
\* naming that last error.
C28_ImdsRetries ==
    /\ \A i \in DOMAIN issued :
           /\ issued[i].at < locals.deadline
           /\ i < Len(issued) =>
                  /\ issued[i].status # 200
                  /\ issued[i + 1].at = issued[i].ended + 1
    /\ locals.returned # {} =>
           /\ issued[Len(issued)].status = 200
           /\ JsonDecodable(issued[Len(issued)].body)
           /\ locals.returned = {JsonLoad(issued[Len(issued)].body)}
           /\ locals.raised = None
    /\ FetchOver /\ issued # <<>> /\ issued[Len(issued)].status # 200 =>
           /\ now >= locals.deadline
           /\ locals.raised = "RuntimeError"
    /\ locals.raised = "RuntimeError" =>
           /\ issued # <<>>
           /\ \A i \in DOMAIN issued : issued[i].status # 200
           /\ locals.message = Len(issued)
           /\ locals.returned = {}

\* A 404 answer carrying a body that could be decoded, then a 200 answer
\* whose body is returned.
C28_Witness ==
    /\ Len(issued) = 2
    /\ issued[1].status = 404
    /\ issued[1].body = BodyListed
    /\ issued[2].status = 200
    /\ locals.returned = {JsonLoad(BodyUnlisted)}

ServiceMessages ==
    {"service did not fail as expected", "service is enabled but not active",
     "service is enabled but failed"}

\* C29: once validate_ephemeral_mount has run with the service enabled: if
\* the service is configured to manage the SCSI resource disk and
\* cloud-init's resource-disk link exists or waagent has
\* ResourceDisk.Format=y, it passed only if the service failed; otherwise
\* it passed only if the service is active and not failed.  With the
\* service not enabled none of the assertions about the service's state
\* failed.
C29_EphemeralService ==
    validator.validations # <<>> =>
        LET f == validator.mount_info
            message == validator.validations[1].message
            conflict == f.scsi_resource
                            /\ (f.dev_disk_cloud_azure_resource
                                    \/ f.waagent_resource_disk_format = {TRUE})
        IN  /\ f.ephemeral_service_enabled /\ conflict =>
                   /\ message = "" => f.ephemeral_service_failed
                   /\ ~f.ephemeral_service_failed
                          => message = "service did not fail as expected"
            /\ f.ephemeral_service_enabled /\ ~conflict =>
                   /\ message = "" =>
                          f.ephemeral_service_active /\ ~f.ephemeral_service_failed
                   /\ ~(f.ephemeral_service_active /\ ~f.ephemeral_service_failed)
                          => message \in ServiceMessages
            /\ ~f.ephemeral_service_enabled => message \notin ServiceMessages

\* The service is enabled and configured for the SCSI resource disk, waagent
\* formats the resource disk, the service failed: the validation passes.
C29_Witness ==
    /\ validator.validations # <<>>
    /\ validator.validations[1].name = "validate_mounts"
    /\ validator.validations[1].message = ""
    /\ validator.mount_info.ephemeral_service_enabled
    /\ validator.mount_info.scsi_resource
    /\ ~validator.mount_info.dev_disk_cloud_azure_resource
    /\ validator.mount_info.waagent_resource_disk_format = {TRUE}
    /\ validator.mount_info.ephemeral_service_failed

====
